---- MODULE Spec2Model ----
(***************************************************************************)
(* Backtesting engine of tfg-backtesting-platform: the seven strategy      *)
(* functions under backend/app/backtest/algorithms and the helpers they    *)
(* share.  One behaviour of the model is one call of one strategy function *)
(* on one database content.                                                *)
(*                                                                         *)
(* Arithmetic: Python floats are modelled as exact rationals <<n, d>>      *)
(* (d > 0, lowest terms).  IEEE-754 rounding is not represented.           *)
(*                                                                         *)
(* Backtrader (Cerebro, broker, indicators) is a library the strategy      *)
(* classes run on; its documented scheduling is part of the actions:       *)
(*   - next() is first called on the bar where every indicator has its     *)
(*     minimum period; earlier bars go to prenext(), which does nothing;   *)
(*   - a market order created in next() is executed by the broker before   *)
(*     the following next(), at the close of the bar that created it       *)
(*     (set_coc(True)); an order created on the last bar never executes;   *)
(*   - indicators are computed for the whole feed before the first next(). *)
(***************************************************************************)
EXTENDS Integers, Sequences, FiniteSets, TLC

(***************************************************************************)
(* Exact rationals                                                         *)
(***************************************************************************)
Abs(x) == IF x < 0 THEN -x ELSE x

RECURSIVE GCD(_, _)
GCD(a, b) == IF b = 0 THEN a ELSE GCD(b, a % b)

Norm(n, d) ==
    LET s == IF d < 0 THEN -1 ELSE 1
        g == GCD(Abs(n), Abs(d))
    IN  <<(s * n) \div g, (s * d) \div g>>

R(n) == <<n, 1>>
Zero == R(0)
\* common factors are taken out before multiplying, to keep the integers small
RAdd(a, b) ==
    LET g == GCD(a[2], b[2])
    IN  Norm(a[1] * (b[2] \div g) + b[1] * (a[2] \div g), (a[2] \div g) * b[2])
RSub(a, b) ==
    LET g == GCD(a[2], b[2])
    IN  Norm(a[1] * (b[2] \div g) - b[1] * (a[2] \div g), (a[2] \div g) * b[2])
RMul(a, b) ==
    LET g1 == GCD(Abs(a[1]), b[2])
        g2 == GCD(Abs(b[1]), a[2])
    IN  Norm((a[1] \div g1) * (b[1] \div g2), (a[2] \div g2) * (b[2] \div g1))
RDiv(a, b) == RMul(a, Norm(b[2], b[1]))
RLt(a, b) ==
    LET g == GCD(a[2], b[2])
    IN  a[1] * (b[2] \div g) < b[1] * (a[2] \div g)
RGt(a, b) == RLt(b, a)
RLe(a, b) == ~RLt(b, a)
RGe(a, b) == ~RLt(a, b)

(***************************************************************************)
(* Bounds of the explored inputs                                           *)
(***************************************************************************)
MaxPrice == 2        \* closes are drawn from 0..MaxPrice
MaxTail == 3         \* trailing bars of a series whose prices vary freely
MaxWindow == 2       \* latest start dates tried, counted back from the last bar

Algorithms ==
    {"sma_crossover", "donchian_breakout", "time_series_momentum",
     "rsi_reversion", "buy_and_hold", "market_benchmark",
     "omniscient_benchmark"}

BacktraderAlgorithms ==
    {"sma_crossover", "donchian_breakout", "time_series_momentum",
     "rsi_reversion"}


Prices == 0..MaxPrice
Capitals == {1, 3}

Min(a, b) == IF a < b THEN a ELSE b
Max(a, b) == IF a > b THEN a ELSE b

(***************************************************************************)
(* market_ohlcv rows of one asset: consecutive days 1..L, ascending.  A    *)
(* series is a constant stretch followed by MaxTail freely chosen bars;    *)
(* spread is the distance of high and low from the close.                  *)
(***************************************************************************)
Bar(d, c, spread) ==
    [date |-> d, close |-> c, high |-> c + spread, low |-> Max(c - spread, 0)]

SeriesOfLen(L, spreads) ==
    LET T == Min(L - 1, MaxTail)
    IN  { [k \in 1..L |->
              Bar(k, IF k <= L - T THEN p0 ELSE tail[k - (L - T)], sp)] :
          p0 \in Prices, tail \in [1..T -> Prices], sp \in spreads }

\* The concrete scenario of the specification: closes 10, 12, 11, 15, 14,
\* capital 1000.
Scenario == [closes |-> <<10, 12, 11, 15, 14>>, capital |-> 1000]
ScenarioSeries ==
    [k \in 1..Len(Scenario.closes) |-> Bar(k, Scenario.closes[k], 0)]

\* Start dates tried on a database of L bars: the first bar (no warmup bars
\* exist), the last MaxWindow bars, and the day after the last bar.
StartDates(L) == {d \in 1..(L + 1) : d = 1 \/ d >= L + 1 - MaxWindow}
\* start <= end is the input contract; the range ends on or just before the
\* last bar of the database.
EndDates(L, start) == {e \in {L - 1, L, start} : e >= start /\ (e >= L - 1)}

VARIABLES
    alg,              \* algorithm id of the strategy function called
    params,           \* the caller's params map
    asset_known,      \* whether the assets table has a row for the symbol
    db,               \* market_ohlcv rows of the asset
    start_date, end_date, initial_capital,
    modules,          \* the modules of the algorithms package, as iter_modules
                      \* yields them
    specs,            \* the table _load_specs builds, in insertion order
    cache,            \* what lru_cache holds for _load_specs
    simulations,      \* the rows of the simulations table, in id order
    session,          \* the SQLAlchemy session: "active", or "inactive" after
                      \* a failed flush until rollback() is called
    calls,            \* the calls made so far, in order
    response,         \* what run_and_store_simulation returned or raised
    runs,             \* the calls of run_backtest in flight in one process,
                      \* each with its own locals
    pc,               \* "start", "running", "done", "error"
    fetched,          \* whether the run has called the bar loader
    error,            \* the exception raised, when pc = "error"
    candles,          \* the fetched bars (warmup bars included)
    i,                \* index in candles of the bar the loop / next() is at
    cash, position,   \* the loop's cash and position; the broker's in Backtrader
    entry_price,
    order,            \* the broker's pending market order, <<>> when none
    trades,           \* trades / trades_list / trades_log
    equity_curve,
    result            \* the returned bundle, when pc = "done"

vars == <<alg, params, asset_known, db, start_date, end_date,
          initial_capital, modules, specs, cache, simulations, session,
          calls, response, runs, pc, fetched, error,
          candles, i, cash, position, entry_price, order, trades,
          equity_curve, result>>

\* the table of specs is built once per process and no run changes it
registry == <<modules, specs, cache>>

\* the state of the service layer; no strategy function touches it
service == <<simulations, session, calls, response>>

NoService ==
    /\ simulations = <<>> /\ session = "active"
    /\ calls = <<>> /\ response = [status |-> "none"]
    /\ runs = <<>>

inputs == <<alg, params, asset_known, db, start_date, end_date,
            initial_capital, registry, service, runs>>

NoError == "none"
NoResult == [status |-> "none"]

(***************************************************************************)
(* algorithms/utils/spec.py and the modules of the algorithms package      *)
(***************************************************************************)
None == [kind |-> "None"]

\* an ALGORITHM attribute that is not an AlgorithmSpec
NotAnAlgorithmSpec == [kind |-> "dict"]

\* fn is the name of the strategy function; name, category, description and
\* params are carried along unread by the discovery
AlgorithmSpec(id, fn, hidden) ==
    [kind |-> "AlgorithmSpec", id |-> id, fn |-> fn, hidden |-> hidden]

Module(name, ispkg, ALGORITHM) ==
    [name |-> name, ispkg |-> ispkg, ALGORITHM |-> ALGORITHM]

\* app/backtest/algorithms as it is in the repository
PackageModules ==
    << Module("buy_and_hold", FALSE, None),
       Module("donchian_breakout", FALSE,
              AlgorithmSpec("donchian_breakout", "run_donchian_breakout", FALSE)),
       Module("market_benchmark", FALSE,
              AlgorithmSpec("market_benchmark", "run_market_benchmark", TRUE)),
       Module("omniscient_benchmark", FALSE, None),
       Module("rsi_reversion", FALSE, None),
       Module("sma_crossover", FALSE, None),
       Module("time_series_momentum", FALSE,
              AlgorithmSpec("time_series_momentum", "run_time_series_momentum",
                            FALSE)),
       Module("utils", TRUE, None) >>

NoCache == [built |-> FALSE, table |-> <<>>]
Cached(table) == [built |-> TRUE, table |-> table]

(***************************************************************************)
(* Data shapes                                                             *)
(***************************************************************************)
EquityPoint(d, e) == [date |-> d, equity |-> e]
Trade(d, t, p, q, pl) ==
    [date |-> d, type |-> t, price |-> p, quantity |-> q, profit_loss |-> pl]

\* load_ohlcv_from_db: the rows with start <= ts < end + 1 day, ascending.
LoadOhlcvFromDb(rows, start, end) ==
    SelectSeq(rows, LAMBDA b : b.date >= start /\ b.date <= end)

\* variant: a query that returns no rows gives the empty list
LoadRaisesUnknownAsset(rows) == ~asset_known

\* load_ohlcv_from_db raises ValueError when the assets table has no row
\* for the symbol, and when the query returns no rows
LoadRaises(rows) == ~asset_known \/ rows = <<>>

\* variant: a missing key reads as 0
GetOrZero(p, key, default) == IF key \in DOMAIN p THEN p[key] ELSE 0

\* params.get(key, default)
Get(p, key, default) == IF key \in DOMAIN p THEN p[key] ELSE default

(***************************************************************************)
(* common/metrics.py and common/stats.py                                   *)
(***************************************************************************)
\* variant: the decline as an amount, not as a ratio of the peak
RECURSIVE DrawdownLoopAbsolute(_, _, _, _)
DrawdownLoopAbsolute(curve, k, peak, max_dd) ==
    IF k > Len(curve) THEN max_dd
    ELSE LET eq == curve[k].equity
             new_peak == IF RGt(eq, peak) THEN eq ELSE peak
             dd == RSub(new_peak, eq)
         IN  DrawdownLoopAbsolute(curve, k + 1, new_peak,
                                  IF RGt(dd, max_dd) THEN dd ELSE max_dd)

\* variant: the peak stays at the first point
RECURSIVE DrawdownLoopFromFirst(_, _, _, _)
DrawdownLoopFromFirst(curve, k, peak, max_dd) ==
    IF k > Len(curve) THEN max_dd
    ELSE LET eq == curve[k].equity
             dd == IF peak # Zero THEN RDiv(RSub(peak, eq), peak) ELSE Zero
         IN  DrawdownLoopFromFirst(curve, k + 1, peak,
                                   IF RGt(dd, max_dd) THEN dd ELSE max_dd)

\* the loop of compute_max_drawdown from point k on
RECURSIVE DrawdownLoop(_, _, _, _)
DrawdownLoop(curve, k, peak, max_dd) ==
    IF k > Len(curve) THEN max_dd
    ELSE LET eq == curve[k].equity
             new_peak == IF RGt(eq, peak) THEN eq ELSE peak
             dd == IF new_peak # Zero
                   THEN RDiv(RSub(new_peak, eq), new_peak)
                   ELSE Zero
         IN  DrawdownLoop(curve, k + 1, new_peak,
                          IF RGt(dd, max_dd) THEN dd ELSE max_dd)

ComputeMaxDrawdown(curve) ==
    IF curve = <<>> THEN Zero
    ELSE DrawdownLoop(curve, 1, curve[1].equity, Zero)

\* the returns list of compute_sharpe, from pair (k - 1, k) on
RECURSIVE ReturnsFrom(_, _)
ReturnsFrom(curve, k) ==
    IF k > Len(curve) THEN <<>>
    ELSE LET prev == curve[k - 1].equity
             curr == curve[k].equity
         IN  (IF prev # Zero THEN <<RDiv(RSub(curr, prev), prev)>> ELSE <<>>)
             \o ReturnsFrom(curve, k + 1)

RECURSIVE RSum(_)
RSum(seq) == IF seq = <<>> THEN Zero ELSE RAdd(Head(seq), RSum(Tail(seq)))

Sign(a) == IF a[1] > 0 THEN 1 ELSE IF a[1] < 0 THEN -1 ELSE 0

\* A float that is a square root: the number sign * sqrt(square).
Root(sign, square) == [sign |-> sign, square |-> square]

\* variant: no clipping
ComputeSharpeUnclipped(curve) ==
    IF Len(curve) < 2 THEN Root(0, Zero)
    ELSE LET returns == ReturnsFrom(curve, 2)
             n == Len(returns)
             avg == RDiv(RSum(returns), R(n))
             var == RDiv(RSum([j \in 1..n |->
                                 RMul(RSub(returns[j], avg),
                                      RSub(returns[j], avg))]), R(n))
         IN  IF n < 2 THEN Root(0, Zero)
             ELSE IF var = Zero THEN Root(0, Zero)
             ELSE Root(Sign(avg), RMul(RDiv(RMul(avg, avg), var), R(252)))

\* compute_sharpe: sharpe = (avg / std) * sqrt(252) is held as its sign and
\* its square avg^2 / var * 252; sharpe > 5.0 is sign > 0 and square > 25.
ComputeSharpe(curve) ==
    IF Len(curve) < 2 THEN Root(0, Zero)
    ELSE LET returns == ReturnsFrom(curve, 2)
             n == Len(returns)
             avg == RDiv(RSum(returns), R(n))
             var == RDiv(RSum([j \in 1..n |->
                                 RMul(RSub(returns[j], avg),
                                      RSub(returns[j], avg))]), R(n))
             sharpe == Root(Sign(avg), RMul(RDiv(RMul(avg, avg), var), R(252)))
         IN  IF n < 2 THEN Root(0, Zero)
             ELSE IF var = Zero THEN Root(0, Zero)
             ELSE IF sharpe.sign > 0 /\ RGt(sharpe.square, R(25))
             THEN Root(1, R(25))
             ELSE IF sharpe.sign < 0 /\ RGt(sharpe.square, R(25))
             THEN Root(-1, R(25))
             ELSE sharpe

\* variant: every trade is counted, buys included
TradeStatsAllTrades(trs) ==
    LET sell_trades == trs
        winning == Cardinality({k \in 1..Len(sell_trades) :
                                    RGt(sell_trades[k].profit_loss, Zero)})
        losing == Cardinality({k \in 1..Len(sell_trades) :
                                   RLt(sell_trades[k].profit_loss, Zero)})
        total_closed == winning + losing
    IN  [winning |-> winning, losing |-> losing,
         accuracy |-> IF total_closed > 0
                      THEN RMul(Norm(winning, total_closed), R(100))
                      ELSE Zero]

\* trade_stats
TradeStats(trs) ==
    LET sell_trades == SelectSeq(trs, LAMBDA t : t.type = "sell")
        winning == Cardinality({k \in 1..Len(sell_trades) :
                                    RGt(sell_trades[k].profit_loss, Zero)})
        losing == Cardinality({k \in 1..Len(sell_trades) :
                                   RLt(sell_trades[k].profit_loss, Zero)})
        total_closed == winning + losing
    IN  [winning |-> winning, losing |-> losing,
         accuracy |-> IF total_closed > 0
                      THEN RMul(Norm(winning, total_closed), R(100))
                      ELSE Zero]

\* total_return = final_equity / initial_capital - 1, 0 when the capital is 0
TotalReturn(final_equity, capital) ==
    IF capital # 0 THEN RSub(RDiv(final_equity, R(capital)), R(1)) ELSE Zero

Bundle(name, capital, final_equity, curve, trs) ==
    [status |-> "completed",
     algorithm |-> name,
     initial_capital |-> R(capital),
     final_equity |-> final_equity,
     total_return |-> TotalReturn(final_equity, capital),
     max_drawdown |-> ComputeMaxDrawdown(curve),
     sharpe_ratio |-> ComputeSharpe(curve),
     equity_curve |-> curve,
     trades |-> trs,
     number_of_trades |-> Len(trs),
     winning_trades |-> TradeStats(trs).winning,
     losing_trades |-> TradeStats(trs).losing,
     accuracy |-> TradeStats(trs).accuracy]

(***************************************************************************)
(* run_buy_and_hold                                                        *)
(***************************************************************************)
BuyAndHoldSize(capital, price) ==
    IF RGt(price, Zero) THEN RDiv(R(capital), price) ELSE Zero

BuyAndHoldCurve(cs, size, capital) ==
    [k \in 1..Len(cs) |->
        EquityPoint(cs[k].date,
                    IF RGt(size, Zero) THEN RMul(size, R(cs[k].close))
                    ELSE R(capital))]

\* variant: the position valued at the first close instead of the last
BuyAndHoldFinalEquityAtEntry(cs, size, capital) ==
    IF RGt(size, Zero) THEN RMul(size, R(cs[1].close)) ELSE R(capital)

BuyAndHoldFinalEquity(cs, size, capital) ==
    IF RGt(size, Zero) THEN RMul(size, R(cs[Len(cs)].close)) ELSE R(capital)

BuyAndHoldTrades(cs, size, capital) ==
    LET first == cs[1]
        last == cs[Len(cs)]
        pnl == RSub(BuyAndHoldFinalEquity(cs, size, capital), R(capital))
    IN  IF RGt(size, Zero)
        THEN <<Trade(first.date, "buy", R(first.close), size, Zero),
               Trade(last.date, "sell", R(last.close), size, pnl)>>
        ELSE <<>>

RunBuyAndHold ==
    /\ pc = "start" /\ alg = "buy_and_hold"
    /\ LET cs == LoadOhlcvFromDb(db, start_date, end_date)
           size == BuyAndHoldSize(initial_capital, R(cs[1].close))
       IN  IF LoadRaises(cs)
           THEN /\ pc' = "error" /\ error' = "ValueError"
                /\ UNCHANGED <<candles, i, entry_price, trades, equity_curve,
                               result>>
           ELSE /\ candles' = cs
                /\ i' = Len(cs)
                /\ entry_price' = R(cs[1].close)
                /\ equity_curve' = BuyAndHoldCurve(cs, size, initial_capital)
                /\ trades' = BuyAndHoldTrades(cs, size, initial_capital)
                /\ result' = Bundle("buy_and_hold", initial_capital,
                                    BuyAndHoldFinalEquity(cs, size, initial_capital),
                                    equity_curve', trades')
                /\ pc' = "done"
                /\ UNCHANGED error
    /\ fetched' = TRUE
    /\ UNCHANGED <<inputs, cash, position, order>>

(***************************************************************************)
(* The simulation state a strategy loop carries from bar to bar            *)
(***************************************************************************)
Sim == [cash |-> cash, position |-> position, entry_price |-> entry_price,
        order |-> order, trades |-> trades, equity_curve |-> equity_curve]

InitialSim(capital) ==
    [cash |-> R(capital), position |-> Zero, entry_price |-> Zero,
     order |-> <<>>, trades |-> <<>>, equity_curve |-> <<>>]

SetSim(st) ==
    /\ cash' = st.cash
    /\ position' = st.position
    /\ entry_price' = st.entry_price
    /\ order' = st.order
    /\ trades' = st.trades
    /\ equity_curve' = st.equity_curve

\* variant: the position valued at its entry price
MarkToMarketAtEntry(st, price) == RAdd(st.cash, RMul(st.position, st.entry_price))

MarkToMarket(st, price) == RAdd(st.cash, RMul(st.position, price))

(***************************************************************************)
(* run_market_benchmark                                                    *)
(***************************************************************************)
\* "EXECUTE BUY ON DAY 1": qty = cash / first_price, not guarded against a
\* first_price of 0 (the caller tests MarketBuyRaises first).
MarketBuyRaises(cs) == cs[1].close = 0

MarketBuy(cs, capital) ==
    LET st == InitialSim(capital)
        first_price == R(cs[1].close)
        qty == RDiv(st.cash, first_price)
    IN  IF RGt(qty, Zero)
        THEN [st EXCEPT !.position = qty,
                        !.cash = Zero,
                        !.entry_price = first_price,
                        !.trades = Append(@, Trade(cs[1].date, "buy", first_price,
                                                   qty, Zero))]
        ELSE [st EXCEPT !.entry_price = first_price]

\* one iteration of "TRACK EQUITY"; entry_price holds first_price
MarketBar(st, cs, k) ==
    LET curr_price == R(cs[k].close)
        d == cs[k].date
        sold ==
            IF k = Len(cs) /\ RGt(st.position, Zero)
            THEN [st EXCEPT
                    !.trades = Append(@, Trade(d, "sell", curr_price, st.position,
                                  RMul(RSub(curr_price, st.entry_price), st.position))),
                    !.cash = RMul(st.position, curr_price),
                    !.position = Zero]
            ELSE st
    IN  [sold EXCEPT !.equity_curve =
                        Append(@, EquityPoint(d, MarkToMarket(sold, curr_price)))]

MarketBenchmarkStart ==
    /\ pc = "start" /\ alg = "market_benchmark"
    /\ LET cs == LoadOhlcvFromDb(db, start_date, end_date)
       IN  IF LoadRaises(cs)
           THEN /\ pc' = "error" /\ error' = "ValueError"
                /\ UNCHANGED <<candles, i, cash, position, entry_price, order,
                               trades, equity_curve>>
           ELSE IF MarketBuyRaises(cs)
           THEN /\ pc' = "error" /\ error' = "ZeroDivisionError"
                /\ candles' = cs
                /\ UNCHANGED <<i, cash, position, entry_price, order, trades,
                               equity_curve>>
           ELSE /\ pc' = "running" /\ UNCHANGED error
                /\ candles' = cs
                /\ i' = 1
                /\ SetSim(MarketBuy(cs, initial_capital))
    /\ fetched' = TRUE
    /\ UNCHANGED <<inputs, result>>

MarketBenchmarkBar ==
    /\ pc = "running" /\ alg = "market_benchmark"
    /\ i <= Len(candles)
    /\ SetSim(MarketBar(Sim, candles, i))
    /\ i' = i + 1
    /\ UNCHANGED <<inputs, pc, fetched, error, candles, result>>

\* the whole "TRACK EQUITY" loop from bar k on, and the final_equity the
\* function returns
RECURSIVE MarketLoop(_, _, _)
MarketLoop(st, cs, k) ==
    IF k > Len(cs) THEN st ELSE MarketLoop(MarketBar(st, cs, k), cs, k + 1)

MarketFinalEquity(cs, capital) ==
    LET curve == MarketLoop(MarketBuy(cs, capital), cs, 1).equity_curve
    IN  IF curve # <<>> THEN curve[Len(curve)].equity ELSE R(capital)

(***************************************************************************)
(* run_omniscient_benchmark                                                *)
(***************************************************************************)
\* variant: entry_price is reset before the profit is computed
OmniscientSellResetFirst(st, d, price) ==
    [st EXCEPT
        !.cash = RAdd(@, RMul(st.position, price)),
        !.trades = Append(@, Trade(d, "sell", price, st.position,
                              RMul(RSub(price, Zero), st.position))),
        !.position = Zero,
        !.entry_price = Zero]

OmniscientSell(st, d, price) ==
    [st EXCEPT
        !.cash = RAdd(@, RMul(st.position, price)),
        !.trades = Append(@, Trade(d, "sell", price, st.position,
                              RMul(RSub(price, st.entry_price), st.position))),
        !.position = Zero,
        !.entry_price = Zero]

OmniscientBuy(st, d, price) ==
    LET qty == IF RGt(price, Zero) THEN RDiv(st.cash, price) ELSE Zero
    IN  IF RGt(qty, Zero)
        THEN [st EXCEPT
                !.position = qty,
                !.cash = RSub(@, RMul(qty, price)),
                !.entry_price = price,
                !.trades = Append(@, Trade(d, "buy", price, qty, Zero))]
        ELSE st

\* variant: the foresight comparisons are reversed
OmniscientBarReversed(st, cs, k) ==
    LET price == R(cs[k].close)
        d == cs[k].date
        traded ==
            IF k < Len(cs)
            THEN LET next_price == R(cs[k + 1].close)
                 IN  IF st.position = Zero /\ RLt(next_price, price)
                     THEN OmniscientBuy(st, d, price)
                     ELSE IF RGt(st.position, Zero) /\ RGt(next_price, price)
                     THEN OmniscientSell(st, d, price)
                     ELSE st
            ELSE IF RGt(st.position, Zero)
                 THEN OmniscientSell(st, d, price)
                 ELSE st
    IN  [traded EXCEPT !.equity_curve =
                          Append(@, EquityPoint(d, MarkToMarket(traded, price)))]

\* one iteration of the loop over candles
OmniscientBar(st, cs, k) ==
    LET price == R(cs[k].close)
        d == cs[k].date
        traded ==
            IF k < Len(cs)
            THEN LET next_price == R(cs[k + 1].close)
                 IN  IF st.position = Zero /\ RGt(next_price, price)
                     THEN OmniscientBuy(st, d, price)
                     ELSE IF RGt(st.position, Zero) /\ RLt(next_price, price)
                     THEN OmniscientSell(st, d, price)
                     ELSE st
            ELSE IF RGt(st.position, Zero)
                 THEN OmniscientSell(st, d, price)
                 ELSE st
    IN  [traded EXCEPT !.equity_curve =
                          Append(@, EquityPoint(d, MarkToMarket(traded, price)))]

OmniscientStart ==
    /\ pc = "start" /\ alg = "omniscient_benchmark"
    /\ LET cs == LoadOhlcvFromDb(db, start_date, end_date)
       IN  IF LoadRaises(cs)
           THEN /\ pc' = "error" /\ error' = "ValueError"
                /\ UNCHANGED <<candles, i, cash, position, entry_price, order,
                               trades, equity_curve>>
           ELSE /\ pc' = "running" /\ UNCHANGED error
                /\ candles' = cs
                /\ i' = 1
                /\ SetSim(InitialSim(initial_capital))
    /\ fetched' = TRUE
    /\ UNCHANGED <<inputs, result>>

OmniscientBenchmarkBar ==
    /\ pc = "running" /\ alg = "omniscient_benchmark"
    /\ i <= Len(candles)
    /\ SetSim(OmniscientBar(Sim, candles, i))
    /\ i' = i + 1
    /\ UNCHANGED <<inputs, pc, fetched, error, candles, result>>

(***************************************************************************)
(* Backtrader strategies: parameters                                       *)
(***************************************************************************)
SmaShortDefault == 20
SmaLongDefault == 50
DonchianDefault == 20
DonchianMin == 5
MomentumDefault == 252
MomentumMin == 10
RsiPeriodDefault == 14
OversoldDefault == 30
OverboughtDefault == 70

\* The ParamDef list each algorithm declares: ALGORITHM.params in
\* donchian_breakout.py and time_series_momentum.py, ALGORITHMS[id]["params"]
\* in registry.py for sma_crossover and rsi_reversion; no parameter for the
\* rest.
ParamDef(min, max, default) == [min |-> min, max |-> max, default |-> default]

ParamDefs(a) ==
    CASE a = "sma_crossover" ->
            [short_window |-> ParamDef(5, 50, 20),
             long_window |-> ParamDef(20, 200, 50)]
      [] a = "rsi_reversion" ->
            [rsi_period |-> ParamDef(2, 100, 14),
             oversold |-> ParamDef(5, 50, 30),
             overbought |-> ParamDef(50, 95, 70)]
      [] a = "donchian_breakout" -> [lookback_period |-> ParamDef(5, 200, 20)]
      [] a = "time_series_momentum" ->
            [momentum_period |-> ParamDef(10, 500, 252)]
      [] OTHER -> <<>>

\* the values a run_* function reads from params in its first lines
ReadParams(a, p) ==
    CASE a = "sma_crossover" ->
            [short_window |-> Get(p, "short_window", SmaShortDefault),
             long_window |-> Get(p, "long_window", SmaLongDefault)]
      [] a = "rsi_reversion" ->
            [rsi_period |-> Get(p, "rsi_period", RsiPeriodDefault),
             oversold |-> Get(p, "oversold", OversoldDefault),
             overbought |-> Get(p, "overbought", OverboughtDefault)]
      [] a = "donchian_breakout" ->
            [lookback_period |-> Get(p, "lookback_period", DonchianDefault)]
      [] a = "time_series_momentum" ->
            [momentum_period |-> Get(p, "momentum_period", MomentumDefault)]
      [] OTHER -> <<>>

\* the lookback period a strategy sizes its warmup with
Lookback(a, p) ==
    CASE a = "sma_crossover" -> Get(p, "long_window", SmaLongDefault)
      [] a = "donchian_breakout" -> Get(p, "lookback_period", DonchianDefault)
      [] a = "time_series_momentum" -> Get(p, "momentum_period", MomentumDefault)
      [] a = "rsi_reversion" -> Get(p, "rsi_period", RsiPeriodDefault)

\* variant: the crossover's window ordering is not checked
ParamsValidNoOrdering(a, p) ==
    CASE a = "sma_crossover" ->
            LET short_window == Get(p, "short_window", SmaShortDefault)
                long_window == Get(p, "long_window", SmaLongDefault)
            IN  ~(short_window <= 0 \/ long_window <= 0)
      [] a = "donchian_breakout" ->
            ~(Get(p, "lookback_period", DonchianDefault) < DonchianMin)
      [] a = "time_series_momentum" ->
            ~(Get(p, "momentum_period", MomentumDefault) < MomentumMin)
      [] a = "rsi_reversion" ->
            LET oversold == Get(p, "oversold", OversoldDefault)
                overbought == Get(p, "overbought", OverboughtDefault)
            IN  /\ ~(Get(p, "rsi_period", RsiPeriodDefault) <= 1)
                /\ 0 <= oversold /\ oversold < overbought /\ overbought <= 100

\* the checks each run_* function makes before it loads any bar
ParamsValid(a, p) ==
    CASE a = "sma_crossover" ->
            LET short_window == Get(p, "short_window", SmaShortDefault)
                long_window == Get(p, "long_window", SmaLongDefault)
            IN  /\ ~(short_window <= 0 \/ long_window <= 0)
                /\ ~(short_window >= long_window)
      [] a = "donchian_breakout" ->
            ~(Get(p, "lookback_period", DonchianDefault) < DonchianMin)
      [] a = "time_series_momentum" ->
            ~(Get(p, "momentum_period", MomentumDefault) < MomentumMin)
      [] a = "rsi_reversion" ->
            LET oversold == Get(p, "oversold", OversoldDefault)
                overbought == Get(p, "overbought", OverboughtDefault)
            IN  /\ ~(Get(p, "rsi_period", RsiPeriodDefault) <= 1)
                /\ 0 <= oversold /\ oversold < overbought /\ overbought <= 100

WarmupStartDate(a, p, start) == start - 2 * Lookback(a, p)

\* Backtrader: the bar count at which every indicator of the strategy has a
\* value, i.e. the first bar next() is called on.
MinPeriod(a, p) ==
    CASE a = "sma_crossover" -> Get(p, "long_window", SmaLongDefault)
      [] a = "donchian_breakout" -> Get(p, "lookback_period", DonchianDefault)
      [] a = "time_series_momentum" ->
            Get(p, "momentum_period", MomentumDefault) + 1
      [] a = "rsi_reversion" -> Get(p, "rsi_period", RsiPeriodDefault) + 1

(***************************************************************************)
(* Backtrader indicators, as values at bar k of the feed                   *)
(***************************************************************************)
RECURSIVE SumClose(_, _, _)
SumClose(cs, from, to) ==
    IF from > to THEN 0 ELSE cs[from].close + SumClose(cs, from + 1, to)

\* bt.indicators.SimpleMovingAverage(close, period = n); defined for k >= n
SimpleMovingAverage(cs, k, n) == Norm(SumClose(cs, k - n + 1, k), n)

\* bt.indicators.Highest(high, period = n) / Lowest(low, period = n): NaN
\* before bar n (every comparison with NaN is false)
IsNaN(k, n) == k < n

Highest(cs, k, n) ==
    CHOOSE h \in {cs[j].high : j \in (k - n + 1)..k} :
        \A j \in (k - n + 1)..k : cs[j].high <= h

Lowest(cs, k, n) ==
    CHOOSE l \in {cs[j].low : j \in (k - n + 1)..k} :
        \A j \in (k - n + 1)..k : cs[j].low >= l

\* bt.indicators.ROC(close, period = n) = (close - close(-n)) / close(-n),
\* a plain float division: it raises when close(-n) is 0
RocRaises(cs, n) == \E k \in (n + 1)..Len(cs) : cs[k - n].close = 0
Roc(cs, k, n) == Norm(cs[k].close - cs[k - n].close, cs[k - n].close)

\* bt.indicators.RSI(close, period = n): smoothed averages of the up and
\* down moves, seeded with their simple average over the first n moves
UpDay(cs, k) == Max(cs[k].close - cs[k - 1].close, 0)
DownDay(cs, k) == Max(cs[k - 1].close - cs[k].close, 0)

RECURSIVE SumMoves(_, _, _, _)
SumMoves(cs, up, from, to) ==
    IF from > to THEN 0
    ELSE (IF up THEN UpDay(cs, from) ELSE DownDay(cs, from))
         + SumMoves(cs, up, from + 1, to)

RECURSIVE SmoothedMove(_, _, _, _)
SmoothedMove(cs, up, k, n) ==
    IF k = n + 1 THEN Norm(SumMoves(cs, up, 2, n + 1), n)
    ELSE RAdd(RMul(SmoothedMove(cs, up, k - 1, n), Norm(n - 1, n)),
              Norm(IF up THEN UpDay(cs, k) ELSE DownDay(cs, k), n))

\* rs = maup / madown is a plain float division (safediv is off)
RsiRaises(cs, n) ==
    \E k \in (n + 1)..Len(cs) : SmoothedMove(cs, FALSE, k, n) = Zero
Rsi(cs, k, n) ==
    LET rs == RDiv(SmoothedMove(cs, TRUE, k, n), SmoothedMove(cs, FALSE, k, n))
    IN  RSub(R(100), RDiv(R(100), RAdd(R(1), rs)))

IndicatorRaises(a, p, cs) ==
    CASE a = "time_series_momentum" ->
            RocRaises(cs, Get(p, "momentum_period", MomentumDefault))
      [] a = "rsi_reversion" ->
            RsiRaises(cs, Get(p, "rsi_period", RsiPeriodDefault))
      [] OTHER -> FALSE

(***************************************************************************)
(* Backtrader broker (setcommission(0), set_coc(True))                     *)
(***************************************************************************)
\* variant: the broker drops every order unexecuted
BrokerNextRejects(st) == [st EXCEPT !.order = <<>>]

\* The broker's turn before next(): the pending market order executes at
\* the close of the bar that created it; a buy the cash cannot pay is
\* rejected (Margin).
BrokerNext(st) ==
    IF st.order = <<>> THEN st
    ELSE LET o == st.order
             cost == RMul(o.size, o.price)
         IN  IF o.side = "buy"
             THEN IF RLt(RSub(st.cash, cost), Zero)
                  THEN [st EXCEPT !.order = <<>>]
                  ELSE [st EXCEPT !.order = <<>>,
                                  !.cash = RSub(@, cost),
                                  !.position = RAdd(@, o.size)]
             ELSE [st EXCEPT !.order = <<>>,
                             !.cash = RAdd(@, cost),
                             !.position = RSub(@, o.size)]

\* broker.getvalue() at a bar closing at price
BrokerValue(st, price) == RAdd(st.cash, RMul(st.position, price))

(***************************************************************************)
(* The next() the four strategy classes share: warmup return, unformed-    *)
(* indicator return, entry / exit on the class's signals, equity point     *)
(***************************************************************************)
StrategyBuy(st, d, price) ==
    LET size == IF RGt(price, Zero) THEN RDiv(st.cash, price) ELSE Zero
    IN  IF RGt(size, Zero)
        THEN [st EXCEPT
                !.order = [side |-> "buy", size |-> size, price |-> price],
                !.entry_price = price,
                !.trades = Append(@, Trade(d, "buy", price, size, Zero))]
        ELSE st

StrategySell(st, d, price) ==
    LET size == st.position
    IN  [st EXCEPT
            !.order = [side |-> "sell", size |-> size, price |-> price],
            !.trades = Append(@, Trade(d, "sell", price, size,
                                  RMul(RSub(price, st.entry_price), size))),
            !.entry_price = Zero]

\* variant: no return on the bars before sim_start_date
StrategyNextNoWarmup(st, cs, k, sim_start_date, lookback, enter, exit) ==
    LET dt == cs[k].date
        price == R(cs[k].close)
        value == BrokerValue(st, price)
        traded ==
            IF st.position = Zero
            THEN IF enter THEN StrategyBuy(st, dt, price) ELSE st
            ELSE IF exit THEN StrategySell(st, dt, price) ELSE st
    IN  [traded EXCEPT !.equity_curve = Append(@, EquityPoint(dt, value))]

StrategyNext(st, cs, k, sim_start_date, lookback, enter, exit) ==
    LET dt == cs[k].date
        price == R(cs[k].close)
        value == BrokerValue(st, price)
    IN  IF dt < sim_start_date THEN st
        ELSE IF k < lookback
        THEN [st EXCEPT !.equity_curve = Append(@, EquityPoint(dt, value))]
        ELSE LET traded ==
                    IF st.position = Zero
                    THEN IF enter THEN StrategyBuy(st, dt, price) ELSE st
                    ELSE IF exit THEN StrategySell(st, dt, price) ELSE st
             IN  [traded EXCEPT !.equity_curve =
                                   Append(@, EquityPoint(dt, value))]

\* variant: entry on fast >= slow
SmaCrossoverNextNonStrict(st, cs, k, sim_start_date, p) ==
    LET short_window == Get(p, "short_window", SmaShortDefault)
        long_window == Get(p, "long_window", SmaLongDefault)
        sma_fast == SimpleMovingAverage(cs, k, short_window)
        sma_slow == SimpleMovingAverage(cs, k, long_window)
    IN  StrategyNext(st, cs, k, sim_start_date, long_window,
                     RGe(sma_fast, sma_slow), RLt(sma_fast, sma_slow))

\* SmaCrossoverBT.next
SmaCrossoverNext(st, cs, k, sim_start_date, p) ==
    LET short_window == Get(p, "short_window", SmaShortDefault)
        long_window == Get(p, "long_window", SmaLongDefault)
        sma_fast == SimpleMovingAverage(cs, k, short_window)
        sma_slow == SimpleMovingAverage(cs, k, long_window)
    IN  StrategyNext(st, cs, k, sim_start_date, long_window,
                     RGt(sma_fast, sma_slow), RLt(sma_fast, sma_slow))

\* variant: the breakout is tested on the bar's own high and low
DonchianBreakoutNextIntrabar(st, cs, k, sim_start_date, p) ==
    LET lookback == Get(p, "lookback_period", DonchianDefault)
        prev_highest == Highest(cs, k - 1, lookback)
        prev_lowest == Lowest(cs, k - 1, lookback)
    IN  StrategyNext(st, cs, k, sim_start_date, lookback,
                     ~IsNaN(k - 1, lookback) /\ cs[k].high > prev_highest,
                     ~IsNaN(k - 1, lookback) /\ cs[k].low < prev_lowest)

\* DonchianBreakoutBT.next: the channel of the previous bar
DonchianBreakoutNext(st, cs, k, sim_start_date, p) ==
    LET lookback == Get(p, "lookback_period", DonchianDefault)
        price == cs[k].close
        prev_highest == Highest(cs, k - 1, lookback)
        prev_lowest == Lowest(cs, k - 1, lookback)
    IN  StrategyNext(st, cs, k, sim_start_date, lookback,
                     ~IsNaN(k - 1, lookback) /\ price > prev_highest,
                     ~IsNaN(k - 1, lookback) /\ price < prev_lowest)

\* TimeSeriesMomentumBT.next
TimeSeriesMomentumNext(st, cs, k, sim_start_date, p) ==
    LET momentum_period == Get(p, "momentum_period", MomentumDefault)
        roc_val == Roc(cs, k, momentum_period)
    IN  StrategyNext(st, cs, k, sim_start_date, momentum_period,
                     RGt(roc_val, Zero), RLt(roc_val, Zero))

\* RSIMeanReversionBT.next
RsiReversionNext(st, cs, k, sim_start_date, p) ==
    LET rsi_period == Get(p, "rsi_period", RsiPeriodDefault)
        rsi_value == Rsi(cs, k, rsi_period)
    IN  StrategyNext(st, cs, k, sim_start_date, rsi_period,
                     RLt(rsi_value, R(Get(p, "oversold", OversoldDefault))),
                     RGt(rsi_value, R(Get(p, "overbought", OverboughtDefault))))

\* run_sma_crossover, run_donchian_breakout, run_time_series_momentum,
\* run_rsi_reversion up to cerebro.run() reaching the first next()
BacktraderStart(a) ==
    /\ pc = "start" /\ alg = a
    /\ LET cs == LoadOhlcvFromDb(db, WarmupStartDate(a, params, start_date),
                                 end_date)
       IN  IF ~ParamsValid(a, params)
           THEN /\ pc' = "error" /\ error' = "ValueError"
                /\ UNCHANGED <<fetched, candles, i, cash, position,
                               entry_price, order, trades, equity_curve>>
           ELSE IF LoadRaises(cs)
           THEN /\ pc' = "error" /\ error' = "ValueError"
                /\ fetched' = TRUE
                /\ UNCHANGED <<candles, i, cash, position, entry_price, order,
                               trades, equity_curve>>
           ELSE IF IndicatorRaises(a, params, cs)
           THEN /\ pc' = "error" /\ error' = "ZeroDivisionError"
                /\ fetched' = TRUE
                /\ candles' = cs
                /\ UNCHANGED <<i, cash, position, entry_price, order, trades,
                               equity_curve>>
           ELSE /\ pc' = "running" /\ UNCHANGED error
                /\ fetched' = TRUE
                /\ candles' = cs
                /\ i' = MinPeriod(a, params)
                /\ SetSim(InitialSim(initial_capital))
    /\ UNCHANGED <<inputs, result>>

\* one bar of cerebro.run(): the broker, then the strategy's next()
BacktraderBar(a, st) ==
    /\ pc = "running" /\ alg = a
    /\ i <= Len(candles)
    /\ SetSim(st)
    /\ i' = i + 1
    /\ UNCHANGED <<inputs, pc, fetched, error, candles, result>>

SmaCrossoverBar ==
    BacktraderBar("sma_crossover",
        SmaCrossoverNext(BrokerNext(Sim), candles, i, start_date, params))

DonchianBreakoutBar ==
    BacktraderBar("donchian_breakout",
        DonchianBreakoutNext(BrokerNext(Sim), candles, i, start_date, params))

TimeSeriesMomentumBar ==
    BacktraderBar("time_series_momentum",
        TimeSeriesMomentumNext(BrokerNext(Sim), candles, i, start_date, params))

RsiReversionBar ==
    BacktraderBar("rsi_reversion",
        RsiReversionNext(BrokerNext(Sim), candles, i, start_date, params))

(***************************************************************************)
(* The tail of every run_* function but run_buy_and_hold: final equity,    *)
(* total return, the bundle                                                *)
(***************************************************************************)
\* the Backtrader strategies put one point in an empty curve
ReturnedCurve(a, curve, start, capital) ==
    IF a \in BacktraderAlgorithms /\ curve = <<>>
    THEN <<EquityPoint(start, R(capital))>>
    ELSE curve

FinalEquity(curve, capital) ==
    IF curve # <<>> THEN curve[Len(curve)].equity ELSE R(capital)

Return ==
    /\ pc = "running"
    /\ i > Len(candles)
    /\ equity_curve' = ReturnedCurve(alg, equity_curve, start_date, initial_capital)
    /\ result' = Bundle(alg, initial_capital,
                        FinalEquity(equity_curve', initial_capital),
                        equity_curve', trades)
    /\ pc' = "done"
    /\ UNCHANGED <<inputs, fetched, error, candles, i, cash, position,
                   entry_price, order, trades>>

(***************************************************************************)
(* Each run_* function as one function of its arguments: what it raises or *)
(* the bundle it returns when called with the parameter map p on the       *)
(* database, dates and capital of the run                                  *)
(***************************************************************************)
Raised(e) == [pc |-> "error", error |-> e, result |-> NoResult]
Returned(b) == [pc |-> "done", error |-> NoError, result |-> b]

RECURSIVE OmniscientLoop(_, _, _)
OmniscientLoop(st, cs, k) ==
    IF k > Len(cs) THEN st
    ELSE OmniscientLoop(OmniscientBar(st, cs, k), cs, k + 1)

\* the strategy class's next() for algorithm a
StrategyClassNext(a, st, cs, k, p) ==
    CASE a = "sma_crossover" -> SmaCrossoverNext(st, cs, k, start_date, p)
      [] a = "donchian_breakout" -> DonchianBreakoutNext(st, cs, k, start_date, p)
      [] a = "time_series_momentum" ->
            TimeSeriesMomentumNext(st, cs, k, start_date, p)
      [] a = "rsi_reversion" -> RsiReversionNext(st, cs, k, start_date, p)

\* cerebro.run() from bar k on
RECURSIVE CerebroRun(_, _, _, _, _)
CerebroRun(a, st, cs, k, p) ==
    IF k > Len(cs) THEN st
    ELSE CerebroRun(a, StrategyClassNext(a, BrokerNext(st), cs, k, p),
                    cs, k + 1, p)

RunBacktrader(a, p) ==
    LET cs == LoadOhlcvFromDb(db, WarmupStartDate(a, p, start_date), end_date)
        st == CerebroRun(a, InitialSim(initial_capital), cs, MinPeriod(a, p), p)
        curve == ReturnedCurve(a, st.equity_curve, start_date, initial_capital)
    IN  IF ~ParamsValid(a, p) THEN Raised("ValueError")
        ELSE IF LoadRaises(cs) THEN Raised("ValueError")
        ELSE IF IndicatorRaises(a, p, cs) THEN Raised("ZeroDivisionError")
        ELSE Returned(Bundle(a, initial_capital,
                             FinalEquity(curve, initial_capital),
                             curve, st.trades))

\* market_benchmark.py 45-51: what run_market_benchmark returns "if not
\* candles"; buy_and_hold.py 46-49 and omniscient_benchmark.py 38-41 raise
\* ValueError there
NoDataFound ==
    [status |-> "error", message |-> "No data found",
     equity_curve |-> <<>>, trades |-> <<>>]

RunLoopStrategy(a) ==
    LET cs == LoadOhlcvFromDb(db, start_date, end_date)
        size == BuyAndHoldSize(initial_capital, R(cs[1].close))
        st == IF a = "market_benchmark"
              THEN MarketLoop(MarketBuy(cs, initial_capital), cs, 1)
              ELSE OmniscientLoop(InitialSim(initial_capital), cs, 1)
    IN  IF LoadRaises(cs) THEN Raised("ValueError")
        ELSE IF cs = <<>>
        THEN (IF a = "market_benchmark" THEN Returned(NoDataFound)
              ELSE Raised("ValueError"))
        ELSE IF a = "buy_and_hold"
        THEN Returned(Bundle(a, initial_capital,
                             BuyAndHoldFinalEquity(cs, size, initial_capital),
                             BuyAndHoldCurve(cs, size, initial_capital),
                             BuyAndHoldTrades(cs, size, initial_capital)))
        ELSE IF a = "market_benchmark" /\ MarketBuyRaises(cs)
        THEN Raised("ZeroDivisionError")
        ELSE Returned(Bundle(a, initial_capital,
                             FinalEquity(st.equity_curve, initial_capital),
                             st.equity_curve, st.trades))

Outcome(a, p) ==
    IF a \in BacktraderAlgorithms THEN RunBacktrader(a, p)
    ELSE RunLoopStrategy(a)

(***************************************************************************)
(* Inputs                                                                  *)
(***************************************************************************)
\* [unused |-> 0] leaves every declared key out: the run works with the
\* defaults
ParamChoices(a) ==
    CASE a = "sma_crossover" ->
            {[short_window |-> 1, long_window |-> 2],
             [short_window |-> 2, long_window |-> 3],
             [unused |-> 0]}
      [] a = "donchian_breakout" -> {[lookback_period |-> 5], [unused |-> 0]}
      [] a = "time_series_momentum" ->
            {[momentum_period |-> 10], [unused |-> 0]}
      [] a = "rsi_reversion" ->
            {[rsi_period |-> 2, oversold |-> 30, overbought |-> 70],
             [rsi_period |-> 2, unused |-> 0]}
      [] OTHER -> {[unused |-> 0]}

\* parameter maps a run_* function rejects, and maps leaving keys out
OtherParamChoices(a) ==
    CASE a = "sma_crossover" ->
            {[short_window |-> 2, long_window |-> 2],
             [short_window |-> 0, long_window |-> 2],
             [short_window |-> 50, long_window |-> 20],
             [long_window |-> 2], [unused |-> 0]}
      [] a = "donchian_breakout" ->
            {[lookback_period |-> 4], [lookback_period |-> 201],
             [unused |-> 0]}
      [] a = "time_series_momentum" ->
            {[momentum_period |-> 9], [momentum_period |-> 501],
             [unused |-> 0]}
      [] a = "rsi_reversion" ->
            {[rsi_period |-> 1, oversold |-> 30, overbought |-> 70],
             [rsi_period |-> 2, oversold |-> 70, overbought |-> 30],
             [rsi_period |-> 2, oversold |-> 30, overbought |-> 96],
             [rsi_period |-> 2, oversold |-> 30, overbought |-> 101],
             [unused |-> 0]}
      [] OTHER -> {}

Lengths(a, p) ==
    IF a \in BacktraderAlgorithms
    THEN (MinPeriod(a, p) - 1)..(MinPeriod(a, p) + MaxTail - 1)
    ELSE 1..(MaxTail + 1)

Spreads(a) == IF a = "donchian_breakout" THEN {0, 1} ELSE {0}

InitRun ==
    /\ pc = "start" /\ fetched = FALSE /\ error = NoError
    /\ candles = <<>> /\ i = 0
    /\ cash = Zero /\ position = Zero /\ entry_price = Zero /\ order = <<>>
    /\ trades = <<>> /\ equity_curve = <<>>
    /\ result = NoResult

Init ==
    /\ alg \in Algorithms
    /\ modules = PackageModules /\ specs = <<>> /\ cache = NoCache
    /\ NoService
    /\ \/ /\ params \in ParamChoices(alg)
          /\ asset_known = TRUE
          /\ \E L \in Lengths(alg, params) : db \in SeriesOfLen(L, Spreads(alg))
          /\ initial_capital \in Capitals
          /\ start_date \in StartDates(Len(db))
          /\ end_date \in EndDates(Len(db), start_date)
       \/ /\ params \in OtherParamChoices(alg)
          /\ asset_known = TRUE
          /\ db \in SeriesOfLen(2, {0})
          /\ initial_capital \in Capitals
          /\ start_date = 1 /\ end_date = 2
       \/ /\ params \in ParamChoices(alg) \cup OtherParamChoices(alg)
          /\ asset_known = FALSE
          /\ db = <<>>
          /\ initial_capital \in Capitals
          /\ start_date = 1 /\ end_date = 2
       \/ /\ alg = "buy_and_hold"
          /\ params = [unused |-> 0]
          /\ asset_known = TRUE
          /\ db = ScenarioSeries
          /\ initial_capital = Scenario.capital
          /\ start_date = 1 /\ end_date = Len(db)
    /\ InitRun

Next ==
    \/ RunBuyAndHold
    \/ MarketBenchmarkStart
    \/ MarketBenchmarkBar
    \/ OmniscientStart
    \/ OmniscientBenchmarkBar
    \/ \E a \in BacktraderAlgorithms : BacktraderStart(a)
    \/ SmaCrossoverBar
    \/ DonchianBreakoutBar
    \/ TimeSeriesMomentumBar
    \/ RsiReversionBar
    \/ Return

Spec == Init /\ [][Next]_vars

TypeOK ==
    /\ pc \in {"start", "running", "done", "error"}
    /\ error \in {NoError, "ValueError", "ZeroDivisionError"}

(***************************************************************************)
(* The metric functions called on their own: one call of one function on   *)
(* an equity curve or a trade list                                         *)
(***************************************************************************)
MaxEquity == 2       \* equities are drawn from -1..MaxEquity
MaxCurve == 4        \* longest equity curve
MaxTrades == 4       \* longest trade list

SeqsUpTo(S, n) == UNION {[1..m -> S] : m \in 0..n}

EquityCurves ==
    {[k \in 1..Len(es) |-> EquityPoint(k, R(es[k]))] :
        es \in SeqsUpTo((-1)..MaxEquity, MaxCurve)}

\* type and profit_loss of a trade
TradeKinds == {"buy", "sell"} \X {-1, 0, 1}

TradeLists ==
    {[k \in 1..Len(ks) |-> Trade(k, ks[k][1], R(1), R(1), R(ks[k][2]))] :
        ks \in SeqsUpTo(TradeKinds, MaxTrades)}

NoRun ==
    /\ alg = "none" /\ params = <<>> /\ asset_known = FALSE /\ db = <<>>
    /\ start_date = 0 /\ end_date = 0 /\ initial_capital = 0
    /\ fetched = FALSE /\ error = NoError
    /\ candles = <<>> /\ i = 0
    /\ cash = Zero /\ position = Zero /\ entry_price = Zero /\ order = <<>>
    /\ result = NoResult
    /\ NoService

run_args == <<params, asset_known, db, start_date, end_date,
              initial_capital, service, runs>>

run_vars == <<alg, run_args, fetched, candles, cash, position, entry_price,
              order, trades, equity_curve>>

MetricsInit ==
    /\ NoRun
    /\ modules = PackageModules /\ specs = <<>> /\ cache = NoCache
    /\ pc = "start"
    /\ \/ equity_curve \in EquityCurves /\ trades = <<>>
       \/ equity_curve = <<>> /\ trades \in TradeLists

Call(fn, value) ==
    /\ pc = "start"
    /\ result' = [status |-> "returned", fn |-> fn, value |-> value]
    /\ pc' = "done"
    /\ UNCHANGED <<run_vars, registry, i, error>>

CallComputeMaxDrawdown ==
    Call("compute_max_drawdown", ComputeMaxDrawdown(equity_curve))

CallComputeSharpe == Call("compute_sharpe", ComputeSharpe(equity_curve))

CallTradeStats == Call("trade_stats", TradeStats(trades))

MetricsNext ==
    \/ CallComputeMaxDrawdown
    \/ CallComputeSharpe
    \/ CallTradeStats

MetricsSpec == MetricsInit /\ [][MetricsNext]_vars

(***************************************************************************)
(* algorithms/utils/discovery.py: calls of list_algorithm_definitions and  *)
(* get_algorithm_fn in one process, over a package of up to MaxModules     *)
(* modules                                                                 *)
(***************************************************************************)
MaxModules == 3

EXCLUDE == {"__init__", "spec", "discovery"}

ModuleNames == <<"m1", "m2", "m3", "m4", "m5", "m6">>
Ids == {"a", "b"}

\* what a module of the package can be: one that defines a spec, one with no
\* ALGORITHM, one whose ALGORITHM is something else, a sub-package, and a
\* module with an excluded name
ModuleKinds ==
    ({"AlgorithmSpec"} \X Ids \X BOOLEAN)
    \cup {<<"None", "a", FALSE>>, <<"dict", "a", FALSE>>,
          <<"package", "a", FALSE>>, <<"excluded", "a", FALSE>>}

ModuleOf(k, kind) ==
    CASE kind[1] = "AlgorithmSpec" ->
           Module(ModuleNames[k], FALSE,
                  AlgorithmSpec(kind[2], ModuleNames[k], kind[3]))
      [] kind[1] = "None" -> Module(ModuleNames[k], FALSE, None)
      [] kind[1] = "dict" -> Module(ModuleNames[k], FALSE, NotAnAlgorithmSpec)
      [] kind[1] = "package" ->
           Module(ModuleNames[k], TRUE,
                  AlgorithmSpec(kind[2], ModuleNames[k], kind[3]))
      [] kind[1] = "excluded" ->
           Module("spec", FALSE, AlgorithmSpec(kind[2], "spec", kind[3]))

\* iter_modules yields each name once
ModuleLists ==
    {[k \in 1..Len(ks) |-> ModuleOf(k, ks[k])] :
        ks \in {x \in SeqsUpTo(ModuleKinds, MaxModules) :
                   Cardinality({k \in 1..Len(x) : x[k][1] = "excluded"}) <= 1}}

AlgorithmIds == Ids \cup {"market_benchmark", "sma_crossover"}

RegistryInit ==
    /\ NoRun
    /\ trades = <<>> /\ equity_curve = <<>>
    /\ modules \in ModuleLists \cup {PackageModules}
    /\ specs = <<>> /\ cache = NoCache
    /\ pc = "idle"

TableIds(table) == {table[k].id : k \in 1..Len(table)}

\* dict.get: the spec stored under the id, or None
TableGet(table, id) ==
    IF id \in TableIds(table)
    THEN table[CHOOSE k \in 1..Len(table) : table[k].id = id]
    ELSE None

\* variant: no id is taken as present
InTableNever(table, id) == FALSE

\* spec.id in specs
InTable(table, id) == id \in TableIds(table)

Raise(e) ==
    /\ error' = e
    /\ result' = [status |-> "raised", fn |-> pc]
    /\ pc' = "idle"

idle_vars == <<run_args, fetched, candles, cash, position, entry_price,
               order, trades, equity_curve>>

\* the call enters _load_specs(): a cached table is returned as it is,
\* otherwise the loop starts with an empty table
EnterLoadSpecs ==
    IF cache.built
    THEN specs' = cache.table /\ i' = Len(modules) + 1
    ELSE specs' = <<>> /\ i' = 1

CallListAlgorithmDefinitions ==
    /\ pc = "idle"
    /\ pc' = "list_algorithm_definitions"
    /\ EnterLoadSpecs
    /\ error' = NoError /\ result' = NoResult
    /\ UNCHANGED <<alg, idle_vars, modules, cache>>

CallGetAlgorithmFn(algorithm_id) ==
    /\ pc = "idle"
    /\ pc' = "get_algorithm_fn"
    /\ alg' = algorithm_id
    /\ EnterLoadSpecs
    /\ error' = NoError /\ result' = NoResult
    /\ UNCHANGED <<idle_vars, modules, cache>>

InLoadSpecs ==
    /\ pc \in {"list_algorithm_definitions", "get_algorithm_fn"}
    /\ i <= Len(modules)

Skipped(mod) == mod.ispkg \/ mod.name \in EXCLUDE

\* lines 23-24
SkipModule ==
    /\ InLoadSpecs
    /\ Skipped(modules[i])
    /\ i' = i + 1
    /\ UNCHANGED <<alg, idle_vars, registry, pc, error, result>>

\* lines 28-30
SkipNoAlgorithm ==
    /\ InLoadSpecs
    /\ ~Skipped(modules[i])
    /\ modules[i].ALGORITHM = None
    /\ i' = i + 1
    /\ UNCHANGED <<alg, idle_vars, registry, pc, error, result>>

\* lines 32-33
RaiseTypeError ==
    /\ InLoadSpecs
    /\ ~Skipped(modules[i])
    /\ modules[i].ALGORITHM.kind \notin {"None", "AlgorithmSpec"}
    /\ Raise("TypeError")
    /\ specs' = <<>>
    /\ UNCHANGED <<alg, idle_vars, modules, cache, i>>

\* lines 35-36
RaiseDuplicate ==
    /\ InLoadSpecs
    /\ ~Skipped(modules[i])
    /\ modules[i].ALGORITHM.kind = "AlgorithmSpec"
    /\ InTable(specs, modules[i].ALGORITHM.id)
    /\ Raise("ValueError: Duplicate algorithm id")
    /\ specs' = <<>>
    /\ UNCHANGED <<alg, idle_vars, modules, cache, i>>

\* line 38
Register ==
    /\ InLoadSpecs
    /\ ~Skipped(modules[i])
    /\ modules[i].ALGORITHM.kind = "AlgorithmSpec"
    /\ ~InTable(specs, modules[i].ALGORITHM.id)
    /\ specs' = Append(specs, modules[i].ALGORITHM)
    /\ i' = i + 1
    /\ UNCHANGED <<alg, idle_vars, modules, cache, pc, error, result>>

\* variant: hidden specs are listed too
DefinitionsOfAll(table) == [k \in 1..Len(table) |-> table[k].id]

\* the ids of the definitions list_algorithm_definitions builds from a table,
\* in the table's order; each definition copies id, name, category,
\* description and params of its spec
Definitions(table) ==
    LET visible == SelectSeq(table, LAMBDA spec : ~spec.hidden)
    IN  [k \in 1..Len(visible) |-> visible[k].id]

\* _load_specs returns its table, lru_cache keeps it, and the caller's loop
\* over its values runs
ListAlgorithmDefinitionsReturn ==
    /\ pc = "list_algorithm_definitions"
    /\ i > Len(modules)
    /\ cache' = Cached(specs)
    /\ result' = [status |-> "returned", fn |-> pc,
                  value |-> Definitions(specs)]
    /\ pc' = "idle"
    /\ UNCHANGED <<alg, idle_vars, modules, specs, i, error>>

GetAlgorithmFnReturn ==
    /\ pc = "get_algorithm_fn"
    /\ i > Len(modules)
    /\ cache' = Cached(specs)
    /\ IF TableGet(specs, alg) = None
       THEN Raise("ValueError: Unsupported algorithm")
       ELSE /\ result' = [status |-> "returned", fn |-> pc,
                          value |-> TableGet(specs, alg).fn]
            /\ pc' = "idle"
            /\ error' = error
    /\ UNCHANGED <<alg, idle_vars, modules, specs, i>>

RegistryNext ==
    \/ CallListAlgorithmDefinitions
    \/ \E algorithm_id \in AlgorithmIds : CallGetAlgorithmFn(algorithm_id)
    \/ SkipModule
    \/ SkipNoAlgorithm
    \/ RaiseTypeError
    \/ RaiseDuplicate
    \/ Register
    \/ ListAlgorithmDefinitionsReturn
    \/ GetAlgorithmFnReturn

RegistrySpec == RegistryInit /\ [][RegistryNext]_vars

(***************************************************************************)
(* engine.py and services/simulation_service.py: one direct call of        *)
(* run_backtest, or one request served by run_and_store_simulation, in a   *)
(* process whose registry is not built yet                                 *)
(***************************************************************************)
\* variant: the params of the caller are dropped
ParamsOrEmptyAlways(p) == <<>>

\* params or {}
ParamsOrEmpty(p) == IF p = None \/ p = <<>> THEN <<>> ELSE p

\* _load_specs() as one function: the loop from module k on
RECURSIVE LoadSpecsFrom(_, _, _)
LoadSpecsFrom(mods, k, table) ==
    IF k > Len(mods) THEN [error |-> NoError, table |-> table]
    ELSE IF Skipped(mods[k]) \/ mods[k].ALGORITHM = None
    THEN LoadSpecsFrom(mods, k + 1, table)
    ELSE IF mods[k].ALGORITHM.kind # "AlgorithmSpec"
    THEN [error |-> "TypeError", table |-> <<>>]
    ELSE IF InTable(table, mods[k].ALGORITHM.id)
    THEN [error |-> "ValueError: Duplicate algorithm id", table |-> <<>>]
    ELSE LoadSpecsFrom(mods, k + 1, Append(table, mods[k].ALGORITHM))

LoadSpecs ==
    IF cache.built THEN [error |-> NoError, table |-> cache.table]
    ELSE LoadSpecsFrom(modules, 1, <<>>)

\* the module-level function an AlgorithmSpec's fn names
FnAlgorithm(fn) ==
    CASE fn = "run_donchian_breakout" -> "donchian_breakout"
      [] fn = "run_time_series_momentum" -> "time_series_momentum"
      [] fn = "run_market_benchmark" -> "market_benchmark"

CallOf(fn, args) == [fn |-> fn, args |-> args]

\* variant: the strategy function is looked up by the engine's own table
\* of names, registered or not
ResolveAny(table, algorithm_id) ==
    IF algorithm_id \in {"donchian_breakout", "time_series_momentum",
                         "market_benchmark"}
    THEN AlgorithmSpec(algorithm_id,
                       CASE algorithm_id = "donchian_breakout" ->
                              "run_donchian_breakout"
                         [] algorithm_id = "time_series_momentum" ->
                              "run_time_series_momentum"
                         [] OTHER -> "run_market_benchmark",
                       FALSE)
    ELSE AlgorithmSpec(algorithm_id, "run_market_benchmark", FALSE)

\* _load_specs().get(algorithm_id)
Resolve(table, algorithm_id) == TableGet(table, algorithm_id)

\* run_backtest(db, asset, algorithm, start_date, end_date, initial_capital,
\* params): what it raises or returns, the calls it makes, and what the
\* cache of _load_specs holds afterwards
RunBacktest(algorithm, p) ==
    LET loaded == LoadSpecs
        spec == Resolve(loaded.table, algorithm)
        resolve == CallOf("get_algorithm_fn", <<algorithm>>)
        args == <<start_date, end_date, initial_capital, ParamsOrEmpty(p)>>
    IN  IF loaded.error # NoError
        THEN [outcome |-> Raised(loaded.error), calls |-> <<resolve>>,
              cache |-> cache]
        ELSE IF spec = None
        THEN [outcome |-> Raised("ValueError: Unsupported algorithm"),
              calls |-> <<resolve>>, cache |-> Cached(loaded.table)]
        ELSE [outcome |-> Outcome(FnAlgorithm(spec.fn), ParamsOrEmpty(p)),
              calls |-> <<resolve, CallOf(spec.fn, args)>>,
              cache |-> Cached(loaded.table)]

IsValueError(e) ==
    e \in {"ValueError", "ValueError: Unsupported algorithm",
           "ValueError: Duplicate algorithm id"}

payload == <<alg, params, asset_known, db, start_date, end_date,
             initial_capital>>

sim_idle == <<specs, fetched, candles, cash, position, entry_price, order,
              trades, equity_curve, runs>>

\* a direct call of run_backtest with the arguments of the state
DirectRunBacktest ==
    /\ pc = "idle"
    /\ \E r \in {RunBacktest(alg, params)} :
           /\ pc' = r.outcome.pc
           /\ error' = r.outcome.error
           /\ result' = r.outcome.result
           /\ calls' = calls \o r.calls
           /\ cache' = r.cache
    /\ UNCHANGED <<payload, sim_idle, modules, simulations, session,
                   response, i>>

Raises(exception) == [status |-> "raised", exception |-> exception]

\* lines 131-153: the primary run; ValueError becomes HTTP 400, any other
\* exception of the model's strategies is not caught
ServicePrimary ==
    /\ pc = "request"
    /\ \E r \in {RunBacktest(alg, ParamsOrEmpty(params))} :
           /\ calls' = calls \o r.calls
           /\ cache' = r.cache
           /\ error' = r.outcome.error
           /\ IF r.outcome.pc = "error"
              THEN /\ response' =
                        IF IsValueError(r.outcome.error)
                        THEN Raises("HTTPException 400")
                        ELSE Raises(r.outcome.error)
                   /\ pc' = "responded"
                   /\ result' = NoResult
              ELSE /\ result' =
                        IF ParamsOrEmpty(params) # <<>>
                        THEN r.outcome.result @@ [params |-> params]
                        ELSE r.outcome.result
                   /\ pc' = "save_main"
                   /\ response' = response
    /\ UNCHANGED <<payload, sim_idle, modules, simulations, session, i>>

\* what can go wrong inside save_simulation: nothing, or the database
\* rejecting a statement of db.flush(), bulk_save_objects or db.commit()
SaveFaults == {"none", "flush"}

SimulationRow(id, b) ==
    [id |-> id, status |-> b.status, algorithm |-> b.algorithm,
     final_equity |-> b.final_equity, equity_curve |-> b.equity_curve,
     trades |-> b.trades]

\* line 155: sim_main = save_simulation(db, result_main), outside any try
ServiceSaveMain(fault) ==
    /\ pc = "save_main"
    /\ calls' = Append(calls, CallOf("save_simulation", <<result.algorithm>>))
    /\ IF fault = "none"
       THEN /\ simulations' =
                 Append(simulations, SimulationRow(Len(simulations) + 1, result))
            /\ i' = Len(simulations) + 1
            /\ pc' = "benchmark"
            /\ UNCHANGED <<session, response>>
       ELSE /\ session' = "inactive"
            /\ response' = Raises("DBAPIError")
            /\ pc' = "responded"
            /\ UNCHANGED <<simulations, i>>
    /\ UNCHANGED <<payload, sim_idle, registry, error, result>>

\* lines 158-170: the benchmark run and its save, inside try / except
\* Exception
ServiceBenchmark(fault) ==
    /\ pc = "benchmark"
    /\ \E r \in {RunBacktest("market_benchmark", <<>>)} :
       LET ran == r.outcome.pc = "done"
       IN  /\ cache' = r.cache
           /\ calls' =
                 calls \o r.calls \o
                 (IF ran THEN <<CallOf("save_simulation", <<"market_benchmark">>)>>
                  ELSE <<>>)
           /\ IF ran /\ fault = "none"
              THEN simulations' =
                     Append(simulations,
                            SimulationRow(Len(simulations) + 1, r.outcome.result))
              ELSE simulations' = simulations
           /\ session' = IF ran /\ fault = "flush" THEN "inactive" ELSE session
    /\ pc' = "detail"
    /\ UNCHANGED <<payload, sim_idle, modules, response, error, result, i>>

\* _find_benchmark_for_sim: the latest market_benchmark row of the same
\* asset, dates and capital, or None
FindBenchmarkForSim(rows) ==
    LET found == {k \in 1..Len(rows) : rows[k].algorithm = "market_benchmark"}
    IN  IF found = {} THEN None
        ELSE rows[CHOOSE k \in found : \A j \in found : j <= k]

\* line 172: _build_simulation_detail(db, sim_main) queries through the
\* session; a session left inactive refuses every statement
ServiceDetail ==
    /\ pc = "detail"
    /\ response' =
          IF session = "inactive" THEN Raises("PendingRollbackError")
          ELSE [status |-> "returned",
                detail |-> simulations[i],
                benchmark |-> FindBenchmarkForSim(simulations)]
    /\ pc' = "responded"
    /\ UNCHANGED <<payload, sim_idle, registry, simulations, session, calls,
                   error, result, i>>

ServiceAlgorithms == Algorithms \cup {"no_such_algorithm"}

\* series of many shapes for two strategies the package registers, with
\* parameter maps that name their periods so that the series stay short
ServiceParamChoices(a) ==
    CASE a = "donchian_breakout" -> {[lookback_period |-> 5]}
      [] a = "market_benchmark" -> {[unused |-> 0]}
      [] OTHER -> {}

ServiceInit ==
    /\ alg \in ServiceAlgorithms
    /\ modules = PackageModules /\ specs = <<>> /\ cache = NoCache
    /\ NoService
    /\ \/ /\ params \in ServiceParamChoices(alg)
          /\ asset_known = TRUE
          /\ \E L \in Lengths(alg, params) : db \in SeriesOfLen(L, {0})
          /\ initial_capital \in Capitals
          /\ start_date = 1
          /\ end_date = Len(db)
       \/ /\ params \in OtherParamChoices(alg) \cup {None, <<>>, [unused |-> 0]}
          /\ \/ asset_known = TRUE /\ db \in SeriesOfLen(2, {0})
             \/ asset_known \in BOOLEAN /\ db = <<>>
          /\ initial_capital \in Capitals
          /\ start_date = 1 /\ end_date = 2
    /\ fetched = FALSE /\ error = NoError
    /\ candles = <<>> /\ i = 0
    /\ cash = Zero /\ position = Zero /\ entry_price = Zero /\ order = <<>>
    /\ trades = <<>> /\ equity_curve = <<>>
    /\ result = NoResult
    /\ pc \in {"idle", "request"}

ServiceNext ==
    \/ DirectRunBacktest
    \/ ServicePrimary
    \/ \E fault \in SaveFaults : ServiceSaveMain(fault)
    \/ \E fault \in SaveFaults : ServiceBenchmark(fault)
    \/ ServiceDetail

ServiceSpec == ServiceInit /\ [][ServiceNext]_vars

(***************************************************************************)
(* Several calls of run_backtest in one process, their steps interleaved:  *)
(* each call has its own locals (the candles it fetched, the strategy      *)
(* instance with its broker, trades_log and equity_curve); the calls share *)
(* the rows of the database and the cache of _load_specs                   *)
(***************************************************************************)
MaxRuns == 2         \* calls of run_backtest in flight

\* closes of the series the calls read: a breakout on the sixth bar, a
\* fall, a first close of 0
RunsCloses == {<<1, 1, 1, 1, 1, 2>>, <<2, 1>>, <<0, 1>>}

RunsSeries ==
    {[k \in 1..Len(cl) |-> Bar(k, cl[k], 0)] : cl \in RunsCloses}

\* algorithm and params of a call: two registered strategies, an id no
\* module registers
RunsRequests ==
    {[algorithm |-> "market_benchmark", params |-> None],
     [algorithm |-> "donchian_breakout", params |-> [lookback_period |-> 5]],
     [algorithm |-> "sma_crossover", params |-> <<>>]}

NoOutcome == [pc |-> "none", error |-> NoError, result |-> NoResult]

\* the locals of a call that has just been made
RunOf(rq) ==
    [pc |-> "called", algorithm |-> rq.algorithm, params |-> rq.params,
     missed |-> FALSE, fn |-> "none", cs |-> <<>>, k |-> 0,
     st |-> InitialSim(0), outcome |-> NoOutcome]

\* variant: the strategy instances share the state of the first call
SharedState(rs, r) == rs[1].st

\* the strategy state a call works on is the one it created itself
OwnState(rs, r) == rs[r].st

\* lru_cache stores the value a miss computed unless another thread has
\* stored it meanwhile
StoreInCache(current, table) ==
    IF current.built THEN current ELSE Cached(table)

\* get_algorithm_fn on the table the call got from _load_specs()
Resolved(run, table) ==
    LET spec == Resolve(table, run.algorithm)
    IN  IF spec = None
        THEN [run EXCEPT !.pc = "returned",
                         !.outcome = Raised("ValueError: Unsupported algorithm")]
        ELSE [run EXCEPT !.pc = "resolved", !.fn = spec.fn]

runs_idle == <<alg, params, asset_known, db, start_date, end_date,
               initial_capital, modules, specs, simulations, session, calls,
               response, pc, fetched, error, candles, i, cash, position,
               entry_price, order, trades, equity_curve, result>>

\* _load_specs() answered from the cache
RunCacheHit(r) ==
    /\ runs[r].pc = "called"
    /\ cache.built
    /\ runs' = [runs EXCEPT ![r] = Resolved(@, cache.table)]
    /\ UNCHANGED <<cache, runs_idle>>

\* _load_specs() not cached yet: the call enters the function's body
RunCacheMiss(r) ==
    /\ runs[r].pc = "called"
    /\ ~cache.built
    /\ runs' = [runs EXCEPT ![r].pc = "loading", ![r].missed = TRUE]
    /\ UNCHANGED <<cache, runs_idle>>

\* the body of _load_specs() returns to a call that missed the cache
RunLoaded(r) ==
    /\ runs[r].pc = "loading"
    /\ LET loaded == LoadSpecsFrom(modules, 1, <<>>)
       IN  IF loaded.error # NoError
           THEN /\ runs' = [runs EXCEPT ![r].pc = "returned",
                                        ![r].outcome = Raised(loaded.error)]
                /\ UNCHANGED cache
           ELSE /\ cache' = StoreInCache(cache, loaded.table)
                /\ runs' = [runs EXCEPT ![r] = Resolved(@, loaded.table)]
    /\ UNCHANGED runs_idle

\* the strategy function up to its first bar
Fetched(run) ==
    LET a == FnAlgorithm(run.fn)
        p == ParamsOrEmpty(run.params)
        cs == IF a \in BacktraderAlgorithms
              THEN LoadOhlcvFromDb(db, WarmupStartDate(a, p, start_date),
                                   end_date)
              ELSE LoadOhlcvFromDb(db, start_date, end_date)
        raise(e) == [run EXCEPT !.pc = "returned", !.outcome = Raised(e)]
    IN  IF a \in BacktraderAlgorithms /\ ~ParamsValid(a, p)
        THEN raise("ValueError")
        ELSE IF LoadRaises(cs) THEN raise("ValueError")
        ELSE IF a \in BacktraderAlgorithms
        THEN (IF IndicatorRaises(a, p, cs) THEN raise("ZeroDivisionError")
              ELSE [run EXCEPT !.pc = "running", !.cs = cs,
                               !.k = MinPeriod(a, p),
                               !.st = InitialSim(initial_capital)])
        ELSE IF cs = <<>>
        THEN [run EXCEPT !.pc = "returned", !.outcome = Returned(NoDataFound)]
        ELSE IF MarketBuyRaises(cs) THEN raise("ZeroDivisionError")
        ELSE [run EXCEPT !.pc = "running", !.cs = cs, !.k = 1,
                         !.st = MarketBuy(cs, initial_capital)]

RunFetch(r) ==
    /\ runs[r].pc = "resolved"
    /\ runs' = [runs EXCEPT ![r] = Fetched(@)]
    /\ UNCHANGED <<cache, runs_idle>>

\* one bar of the call's loop, or of its cerebro.run()
RunBar(r) ==
    /\ runs[r].pc = "running"
    /\ runs[r].k <= Len(runs[r].cs)
    /\ LET a == FnAlgorithm(runs[r].fn)
           p == ParamsOrEmpty(runs[r].params)
           st == OwnState(runs, r)
       IN  runs' = [runs EXCEPT
                      ![r].st = IF a = "market_benchmark"
                                THEN MarketBar(st, runs[r].cs, runs[r].k)
                                ELSE StrategyClassNext(a, BrokerNext(st),
                                                       runs[r].cs, runs[r].k, p),
                      ![r].k = @ + 1]
    /\ UNCHANGED <<cache, runs_idle>>

\* the strategy function's return, which is run_backtest's
RunReturn(r) ==
    /\ runs[r].pc = "running"
    /\ runs[r].k > Len(runs[r].cs)
    /\ LET a == FnAlgorithm(runs[r].fn)
           st == OwnState(runs, r)
           curve == ReturnedCurve(a, st.equity_curve, start_date,
                                  initial_capital)
       IN  runs' = [runs EXCEPT
                      ![r].pc = "returned",
                      ![r].outcome =
                          Returned(Bundle(a, initial_capital,
                                          FinalEquity(curve, initial_capital),
                                          curve, st.trades))]
    /\ UNCHANGED <<cache, runs_idle>>

\* a call of list_algorithm_definitions by some other request
RunsListAlgorithmDefinitions ==
    /\ cache' = StoreInCache(cache, LoadSpecsFrom(modules, 1, <<>>).table)
    /\ UNCHANGED <<runs, runs_idle>>

RunsInit ==
    /\ alg = "none" /\ params = <<>>
    /\ asset_known = TRUE
    /\ db \in RunsSeries
    /\ start_date = 1 /\ end_date = Len(db)
    /\ initial_capital \in Capitals
    /\ modules = PackageModules /\ specs = <<>> /\ cache = NoCache
    /\ simulations = <<>> /\ session = "active"
    /\ calls = <<>> /\ response = [status |-> "none"]
    /\ runs \in {[r \in 1..MaxRuns |-> RunOf(rqs[r])] :
                    rqs \in [1..MaxRuns -> RunsRequests]}
    /\ fetched = FALSE /\ error = NoError
    /\ candles = <<>> /\ i = 0
    /\ cash = Zero /\ position = Zero /\ entry_price = Zero /\ order = <<>>
    /\ trades = <<>> /\ equity_curve = <<>>
    /\ result = NoResult
    /\ pc = "idle"

RunsNext ==
    \/ \E r \in DOMAIN runs : RunCacheHit(r)
    \/ \E r \in DOMAIN runs : RunCacheMiss(r)
    \/ \E r \in DOMAIN runs : RunLoaded(r)
    \/ \E r \in DOMAIN runs : RunFetch(r)
    \/ \E r \in DOMAIN runs : RunBar(r)
    \/ \E r \in DOMAIN runs : RunReturn(r)
    \/ RunsListAlgorithmDefinitions

RunsSpec == RunsInit /\ [][RunsNext]_vars

(***************************************************************************)
(* run_buy_and_hold and run_market_benchmark in floating-point arithmetic: *)
(* every float(...) and every arithmetic operation rounds its exact result *)
(* to the nearest value with MantissaBits significant bits, ties to even   *)
(* (a Python float has 53 significant bits)                                *)
(***************************************************************************)
MantissaBits == 7    \* significant bits of a floating-point value

RECURSIVE Pow2(_)
Pow2(n) == IF n = 0 THEN 1 ELSE 2 * Pow2(n - 1)

\* a / (d * 2^e) brought into [2^(MantissaBits - 1), 2^MantissaBits)
RECURSIVE FloatScale(_, _, _)
FloatScale(a, d, e) ==
    IF a >= d * Pow2(MantissaBits) THEN FloatScale(a, 2 * d, e + 1)
    ELSE IF a < d * Pow2(MantissaBits - 1) THEN FloatScale(2 * a, d, e - 1)
    ELSE <<a, d, e>>

\* the floating-point value nearest to the rational x
Float(x) ==
    IF x[1] = 0 THEN Zero
    ELSE LET sc == FloatScale(Abs(x[1]), x[2], 0)
             q == sc[1] \div sc[2]
             r == sc[1] % sc[2]
             m == IF 2 * r > sc[2] \/ (2 * r = sc[2] /\ q % 2 = 1)
                  THEN q + 1 ELSE q
             sign == IF x[1] < 0 THEN -1 ELSE 1
         IN  IF sc[3] >= 0 THEN Norm(sign * m * Pow2(sc[3]), 1)
             ELSE Norm(sign * m, Pow2(-sc[3]))

FAdd(a, b) == Float(RAdd(a, b))
FSub(a, b) == Float(RSub(a, b))
FMul(a, b) == Float(RMul(a, b))
FDiv(a, b) == Float(RDiv(a, b))

\* run_buy_and_hold on the fetched candles
FloatBuyAndHold(cs, capital) ==
    LET entry == Float(R(cs[1].close))
        exit == Float(R(cs[Len(cs)].close))
        size == IF RGt(entry, Zero)
                THEN FDiv(Float(R(capital)), entry) ELSE Zero
        curve == [k \in 1..Len(cs) |->
                    EquityPoint(cs[k].date,
                                IF RGt(size, Zero)
                                THEN FMul(size, Float(R(cs[k].close)))
                                ELSE Float(R(capital)))]
        final_equity == IF RGt(size, Zero) THEN FMul(size, exit)
                        ELSE Float(R(capital))
        pnl == FSub(final_equity, Float(R(capital)))
        trs == IF RGt(size, Zero)
               THEN <<Trade(cs[1].date, "buy", entry, size, Zero),
                      Trade(cs[Len(cs)].date, "sell", exit, size, pnl)>>
               ELSE <<>>
    IN  IF LoadRaises(cs) \/ cs = <<>> THEN Raised("ValueError")
        ELSE Returned(Bundle("buy_and_hold", capital, final_equity, curve, trs))

\* run_market_benchmark: "EXECUTE BUY ON DAY 1"
FloatMarketBuy(cs, capital) ==
    LET st == [InitialSim(capital) EXCEPT !.cash = Float(R(capital))]
        first_price == Float(R(cs[1].close))
        qty == FDiv(st.cash, first_price)
    IN  IF RGt(qty, Zero)
        THEN [st EXCEPT !.position = qty,
                        !.cash = Zero,
                        !.entry_price = first_price,
                        !.trades = Append(@, Trade(cs[1].date, "buy", first_price,
                                                   qty, Zero))]
        ELSE [st EXCEPT !.entry_price = first_price]

\* run_market_benchmark: one iteration of "TRACK EQUITY"
FloatMarketBar(st, cs, k) ==
    LET curr_price == Float(R(cs[k].close))
        d == cs[k].date
        sold ==
            IF k = Len(cs) /\ RGt(st.position, Zero)
            THEN [st EXCEPT
                    !.trades = Append(@, Trade(d, "sell", curr_price, st.position,
                                  FMul(FSub(curr_price, st.entry_price),
                                       st.position))),
                    !.cash = FMul(st.position, curr_price),
                    !.position = Zero]
            ELSE st
        val == FAdd(sold.cash, FMul(sold.position, curr_price))
    IN  [sold EXCEPT !.equity_curve = Append(@, EquityPoint(d, val))]

RECURSIVE FloatMarketLoop(_, _, _)
FloatMarketLoop(st, cs, k) ==
    IF k > Len(cs) THEN st
    ELSE FloatMarketLoop(FloatMarketBar(st, cs, k), cs, k + 1)

\* run_market_benchmark on the fetched candles
FloatMarketBenchmark(cs, capital) ==
    LET st == FloatMarketLoop(FloatMarketBuy(cs, capital), cs, 1)
    IN  IF LoadRaises(cs) THEN Raised("ValueError")
        ELSE IF cs = <<>> THEN Returned(NoDataFound)
        ELSE IF MarketBuyRaises(cs) THEN Raised("ZeroDivisionError")
        ELSE Returned(Bundle("market_benchmark", capital,
                             FinalEquity(st.equity_curve, capital),
                             st.equity_curve, st.trades))

FloatOutcome(a) ==
    IF a = "market_benchmark"
    THEN FloatMarketBenchmark(LoadOhlcvFromDb(db, start_date, end_date),
                              initial_capital)
    ELSE FloatBuyAndHold(LoadOhlcvFromDb(db, start_date, end_date),
                         initial_capital)

\* one call of the strategy function a
FloatRun(a) ==
    /\ pc = "start" /\ alg = a
    /\ \E o \in {FloatOutcome(a)} :
           /\ pc' = o.pc /\ error' = o.error /\ result' = o.result
           /\ candles' = LoadOhlcvFromDb(db, start_date, end_date)
           /\ i' = Len(candles')
           /\ IF o.pc = "done"
              THEN /\ trades' = o.result.trades
                   /\ equity_curve' = o.result.equity_curve
              ELSE UNCHANGED <<trades, equity_curve>>
    /\ fetched' = TRUE
    /\ UNCHANGED <<inputs, cash, position, entry_price, order>>

FloatRunBuyAndHold == FloatRun("buy_and_hold")
FloatRunMarketBenchmark == FloatRun("market_benchmark")

\* closes that are and are not powers of two, capitals that are exact
\* floating-point values, ranges of one and two bars
FloatCloses == {2, 3, 7}
FloatCapitals == {1, 15, 29}
FloatSeries ==
    UNION {{[k \in 1..L |-> Bar(k, cl[k], 0)] : cl \in [1..L -> FloatCloses]} :
           L \in 1..2}

FloatInit ==
    /\ alg \in {"buy_and_hold", "market_benchmark"}
    /\ params = [unused |-> 0]
    /\ asset_known = TRUE
    /\ db \in FloatSeries
    /\ start_date = 1 /\ end_date = Len(db)
    /\ initial_capital \in FloatCapitals
    /\ modules = PackageModules /\ specs = <<>> /\ cache = NoCache
    /\ NoService
    /\ InitRun

FloatNext == FloatRunBuyAndHold \/ FloatRunMarketBenchmark

FloatSpec == FloatInit /\ [][FloatNext]_vars

(***************************************************************************)
(* Vocabulary of the properties                                            *)
(***************************************************************************)
Done == pc = "done"

\* the fetched bars of the official window [start_date, end_date]
OfficialBars ==
    SelectSeq(candles, LAMBDA b : b.date >= start_date /\ b.date <= end_date)

Count(seq, side) == Cardinality({k \in 1..Len(seq) : seq[k].type = side})

\* The ledger the trade log implies: cash and quantity held once the first
\* n trades are made.
RECURSIVE LedgerCash(_, _, _)
LedgerCash(trs, capital, n) ==
    IF n = 0 THEN R(capital)
    ELSE LET t == trs[n]
             flow == RMul(t.quantity, t.price)
             before == LedgerCash(trs, capital, n - 1)
         IN  IF t.type = "buy" THEN RSub(before, flow) ELSE RAdd(before, flow)

RECURSIVE LedgerPosition(_, _)
LedgerPosition(trs, n) ==
    IF n = 0 THEN Zero
    ELSE IF trs[n].type = "buy"
         THEN RAdd(LedgerPosition(trs, n - 1), trs[n].quantity)
         ELSE RSub(LedgerPosition(trs, n - 1), trs[n].quantity)

\* number of trades dated d or earlier (the log is in date order)
TradesUpTo(trs, d) == Cardinality({k \in 1..Len(trs) : trs[k].date <= d})

HasBar(d) == \E k \in 1..Len(candles) : candles[k].date = d
CloseOn(d) == R(candles[CHOOSE k \in 1..Len(candles) : candles[k].date = d].close)

C2_EndsFlat == Done => Count(trades, "sell") = Count(trades, "buy")

\* C3: the returned equity curve has exactly one point per fetched bar of
\* the official window.
C3_CurveLength == Done => Len(result.equity_curve) = Len(OfficialBars)

\* C4: every equity point recorded for a bar equals cash + quantity held x
\* that bar's close, with the trades made up to and on that bar applied.
C4_MarkToMarket ==
    \A k \in 1..Len(equity_curve) :
        LET e == equity_curve[k]
            n == TradesUpTo(trades, e.date)
        IN  HasBar(e.date) =>
                e.equity = RAdd(LedgerCash(trades, initial_capital, n),
                                RMul(LedgerPosition(trades, n), CloseOn(e.date)))

C4_Witness ==
    /\ alg = "rsi_reversion"
    /\ Len(trades) >= 2
    /\ Len(equity_curve) >= 3
    /\ equity_curve[Len(equity_curve)].equity # R(initial_capital)

\* C5: in the strategies that fetch a warmup, no trade and no equity point
\* is dated before start_date.
C5_NothingBeforeStart ==
    alg \in BacktraderAlgorithms =>
        /\ \A k \in 1..Len(trades) : trades[k].date >= start_date
        /\ \A k \in 1..Len(equity_curve) : equity_curve[k].date >= start_date

\* next() has run on a warmup bar on which the entry signal held
C5_Witness ==
    /\ alg = "time_series_momentum"
    /\ pc = "running"
    /\ i > MinPeriod(alg, params) /\ i <= Len(candles)
    /\ candles[i - 1].date < start_date
    /\ candles[i - 1].close > candles[i - 1 - params.momentum_period].close

\* C6: a buy is made only at a close > 0, for quantity = available cash /
\* close, with profit_loss 0; a close of 0 on the bar of a forced entry
\* gives no buy and no error.
C6_EntryGuarded ==
    /\ \A k \in 1..Len(trades) :
          trades[k].type = "buy" =>
            /\ RGt(trades[k].price, Zero)
            /\ trades[k].profit_loss = Zero
            /\ trades[k].quantity =
                  RDiv(LedgerCash(trades, initial_capital, k - 1), trades[k].price)
    /\ ( /\ alg \in {"market_benchmark", "buy_and_hold"}
         /\ candles # <<>>
         /\ candles[1].close = 0 )
       => (pc # "error" /\ trades = <<>>)

StrictlyIncreasing(cs) ==
    \A k \in 1..(Len(cs) - 1) : cs[k].close < cs[k + 1].close

\* one buy on the first bar for capital / first close, one sell on the
\* last bar, final_equity = capital x last / first, total_return =
\* last / first - 1
BuyAndHoldOutcome ==
    LET first == candles[1]
        last == candles[Len(candles)]
    IN  /\ Len(trades) = 2
        /\ trades[1].type = "buy" /\ trades[1].date = first.date
        /\ trades[1].quantity = Norm(initial_capital, first.close)
        /\ trades[2].type = "sell" /\ trades[2].date = last.date
        /\ result.final_equity = Norm(initial_capital * last.close, first.close)
        /\ result.total_return = RSub(Norm(last.close, first.close), R(1))

ScenarioOutcome ==
    /\ trades[1].price = R(10) /\ trades[1].quantity = R(100)
    /\ trades[2].price = R(14)
    /\ result.final_equity = R(1400)
    /\ result.total_return = Norm(4, 10)

\* C8 as stated: Buy & Hold over any strictly increasing close series gives
\* the one-buy, one-sell outcome, and the scenario 10, 12, 11, 15, 14 with
\* capital 1000 gives quantity 100, a sell at 14, final_equity 1400 and
\* total_return 0.4.
C8_AnyIncreasingSeries ==
    (alg = "buy_and_hold" /\ Done) =>
        /\ StrictlyIncreasing(candles) => BuyAndHoldOutcome
        /\ (db = ScenarioSeries /\ initial_capital = Scenario.capital)
              => ScenarioOutcome

\* C8 amended: the same, for strictly increasing series whose first close
\* is > 0.
C8_IncreasingFromPositive ==
    (alg = "buy_and_hold" /\ Done) =>
        /\ (StrictlyIncreasing(candles) /\ candles[1].close > 0)
              => BuyAndHoldOutcome
        /\ (db = ScenarioSeries /\ initial_capital = Scenario.capital)
              => ScenarioOutcome

C8_Witness ==
    /\ alg = "buy_and_hold" /\ Done
    /\ StrictlyIncreasing(candles) /\ Len(candles) >= 2
    /\ candles[1].close > 0

C8_ScenarioWitness ==
    /\ alg = "buy_and_hold" /\ Done
    /\ db = ScenarioSeries /\ initial_capital = Scenario.capital

\* C9 as stated: on any bar sequence on which both benchmarks return, the
\* omniscient benchmark's final_equity is >= the market baseline's.
C9_OmniscientDominates ==
    (alg = "omniscient_benchmark" /\ Done /\ ~MarketBuyRaises(candles)) =>
        RGe(result.final_equity, MarketFinalEquity(candles, initial_capital))

\* C9 amended: the same, on bar sequences whose closes are all > 0.
C9_DominatesOnPositiveCloses ==
    ( /\ alg = "omniscient_benchmark" /\ Done
      /\ \A k \in 1..Len(candles) : candles[k].close > 0 ) =>
        RGe(result.final_equity, MarketFinalEquity(candles, initial_capital))

C9_Witness ==
    /\ alg = "omniscient_benchmark" /\ Done
    /\ \A k \in 1..Len(candles) : candles[k].close > 0
    /\ Len(trades) >= 4
    /\ RGt(result.final_equity, MarketFinalEquity(candles, initial_capital))

FlatSeries(cs) ==
    \A j, k \in 1..Len(cs) :
        /\ cs[j].close = cs[k].close
        /\ cs[j].high = cs[j].close /\ cs[j].low = cs[j].close

Effective(a, p, key) ==
    IF key \in DOMAIN p THEN p[key] ELSE ParamDefs(a)[key].default

\* the consistency rules of the four parameterised strategies
RuleViolated(a, p) ==
    CASE a = "sma_crossover" ->
            \/ Effective(a, p, "short_window") >= Effective(a, p, "long_window")
            \/ Effective(a, p, "short_window") <= 0
            \/ Effective(a, p, "long_window") <= 0
      [] a = "rsi_reversion" ->
            \/ Effective(a, p, "rsi_period") <= 1
            \/ ~(/\ 0 <= Effective(a, p, "oversold")
                 /\ Effective(a, p, "oversold") < Effective(a, p, "overbought")
                 /\ Effective(a, p, "overbought") <= 100)
      [] a = "donchian_breakout" ->
            Effective(a, p, "lookback_period") < ParamDefs(a).lookback_period.min
      [] a = "time_series_momentum" ->
            Effective(a, p, "momentum_period") < ParamDefs(a).momentum_period.min
      [] OTHER -> FALSE

\* C11: a run whose parameters break the strategy's consistency rule ends
\* in the validation error, with no call of the bar loader and no result.
C11_InvalidParamsFailFirst ==
    (RuleViolated(alg, params) /\ pc # "start") =>
        /\ pc = "error" /\ error = "ValueError"
        /\ ~fetched
        /\ candles = <<>> /\ result = NoResult

\* the crossover called with fast_window 50, slow_window 20 on a known asset
C11_Witness ==
    /\ alg = "sma_crossover"
    /\ params = [short_window |-> 50, long_window |-> 20]
    /\ asset_known /\ db # <<>>
    /\ pc = "error"

\* the caller's map with every declared key present (a missing one at its
\* ParamDef.default) and no other key
Declared(a, p) == [key \in DOMAIN ParamDefs(a) |-> Effective(a, p, key)]

\* C13: the values a run reads from its parameter map are the caller's for
\* the declared keys present and ParamDef.default for those missing, and
\* the run ends as the same function called with the declared keys only:
\* same bundle when it returns, same exception when it raises.
C13_DefaultsAndUnknownKeys ==
    LET o == Outcome(alg, Declared(alg, params))
    IN  /\ ReadParams(alg, params) = Declared(alg, params)
        /\ pc = "done" => (o.pc = "done" /\ o.result = result)
        /\ pc = "error" => (o.pc = "error" /\ o.error = error)

\* a breakout run on the default lookback, given an undeclared key only,
\* that traded
C13_Witness ==
    /\ alg = "donchian_breakout" /\ Done
    /\ DOMAIN params = {"unused"}
    /\ Len(trades) >= 1

OutOfRange(a, p) ==
    \E key \in DOMAIN p \cap DOMAIN ParamDefs(a) :
        p[key] < ParamDefs(a)[key].min \/ p[key] > ParamDefs(a)[key].max

\* C12: a run given a value outside [ParamDef.min, ParamDef.max] fails with
\* the validation error instead of executing the strategy.
C12_RangeValidated ==
    (OutOfRange(alg, params) /\ pc # "start") =>
        (pc = "error" /\ error = "ValueError" /\ ~fetched)

\* C14: a run whose symbol is unknown, or whose range [start_date,
\* end_date] holds no bar, fails with the loader's error and returns no
\* bundle, in every strategy (runs stopped earlier by their parameters
\* aside).
C14_NoDataFails ==
    ( /\ pc # "start"
      /\ ~RuleViolated(alg, params)
      /\ \/ ~asset_known
         \/ LoadOhlcvFromDb(db, start_date, end_date) = <<>> ) =>
        (pc = "error" /\ error = "ValueError" /\ fetched /\ result = NoResult)

(***************************************************************************)
(* Metrics                                                                 *)
(***************************************************************************)
Called(fn) == pc = "done" /\ result.fn = fn

NonNegative(curve) == \A k \in 1..Len(curve) : RGe(curve[k].equity, Zero)

NonDecreasing(curve) ==
    \A k \in 2..Len(curve) : RGe(curve[k].equity, curve[k - 1].equity)

InUnitInterval(v) == RGe(v, Zero) /\ RLe(v, R(1))

ValidPairs(curve) == {k \in 2..Len(curve) : curve[k - 1].equity # Zero}

PairReturn(curve, k) ==
    RDiv(RSub(curve[k].equity, curve[k - 1].equity), curve[k - 1].equity)

RECURSIVE SumOver(_, _)
SumOver(f, S) ==
    IF S = {} THEN Zero
    ELSE LET k == CHOOSE x \in S : TRUE
         IN  RAdd(f[k], SumOver(f, S \ {k}))

\* the square of mean / deviation * sqrt(252) over the valid pairs alone
SquaredSharpeOfValidPairs(curve) ==
    LET S == ValidPairs(curve)
        n == Cardinality(S)
        mean == RDiv(SumOver([k \in S |-> PairReturn(curve, k)], S), R(n))
        variance ==
            RDiv(SumOver([k \in S |->
                            RMul(RSub(PairReturn(curve, k), mean),
                                 RSub(PairReturn(curve, k), mean))], S), R(n))
    IN  IF variance = Zero THEN Zero
        ELSE RMul(R(252), RDiv(RMul(mean, mean), variance))

\* C17: compute_sharpe of every equity curve is in [-5, 5], it is computed
\* from the pairs whose previous equity is not 0 alone, and it is exactly 0
\* when fewer than 2 such pairs remain.
C17_SharpeClippedOverValidPairs ==
    Called("compute_sharpe") =>
        LET n == Cardinality(ValidPairs(equity_curve))
            v == result.value
        IN  /\ v.sign \in {-1, 0, 1}
            /\ RGe(v.square, Zero) /\ RLe(v.square, R(25))
            /\ v.sign = 0 <=> v.square = Zero
            /\ n < 2 => v = Root(0, Zero)
            /\ n >= 2 =>
                   v.square = IF RGt(SquaredSharpeOfValidPairs(equity_curve), R(25))
                              THEN R(25)
                              ELSE SquaredSharpeOfValidPairs(equity_curve)

\* a pair is left out and the value is clipped to 5
C17_Witness ==
    /\ Called("compute_sharpe")
    /\ \E k \in 2..Len(equity_curve) : k \notin ValidPairs(equity_curve)
    /\ result.value = Root(1, R(25))
    /\ RGt(SquaredSharpeOfValidPairs(equity_curve), R(25))

\* a curve of three points with a single valid pair
C17_WitnessOneValidPair ==
    /\ Called("compute_sharpe")
    /\ Len(equity_curve) = 3
    /\ Cardinality(ValidPairs(equity_curve)) = 1
    /\ result.value = Root(0, Zero)

SellsWhere(trs, Cond(_)) ==
    Cardinality({k \in 1..Len(trs) :
                    trs[k].type = "sell" /\ Cond(trs[k].profit_loss)})

Gain(pl) == RGt(pl, Zero)
Loss(pl) == RLt(pl, Zero)
Flat(pl) == pl = Zero

\* C18: trade_stats of every trade list counts sells only: winning is the
\* number of sells with profit_loss > 0, losing the number of sells with
\* profit_loss < 0, accuracy is winning / (winning + losing) x 100, and
\* accuracy is 0 when winning + losing = 0.
C18_TradeStatsCountSells ==
    Called("trade_stats") =>
        LET w == SellsWhere(trades, Gain)
            l == SellsWhere(trades, Loss)
        IN  /\ result.value.winning = w
            /\ result.value.losing = l
            /\ w + l > 0 => result.value.accuracy = Norm(100 * w, w + l)
            /\ w + l = 0 => result.value.accuracy = Zero

\* a list with a gaining sell, a losing sell, a flat sell and a buy that
\* carries a profit_loss
C18_Witness ==
    /\ Called("trade_stats")
    /\ SellsWhere(trades, Gain) = 1
    /\ SellsWhere(trades, Loss) = 1
    /\ SellsWhere(trades, Flat) = 1
    /\ \E k \in 1..Len(trades) :
           trades[k].type = "buy" /\ trades[k].profit_loss # Zero
    /\ result.value.accuracy = R(50)

\* flat sells and buys only: no closed trade is counted
C18_WitnessNoneCounted ==
    /\ Called("trade_stats")
    /\ Len(trades) = 2
    /\ SellsWhere(trades, Flat) = 1
    /\ result.value = [winning |-> 0, losing |-> 0, accuracy |-> Zero]

(***************************************************************************)
(* Registry                                                                *)
(***************************************************************************)
\* the modules whose ALGORITHM the build reads: not a sub-package, not an
\* excluded name
Read(mods) ==
    {k \in 1..Len(mods) : ~mods[k].ispkg /\ mods[k].name \notin EXCLUDE}

\* the specs the build is given, in the order it meets them
SpecsOf(mods) ==
    LET holders == SelectSeq([k \in 1..Len(mods) |-> k],
                             LAMBDA k : /\ k \in Read(mods)
                                        /\ mods[k].ALGORITHM.kind = "AlgorithmSpec")
    IN  [n \in 1..Len(holders) |-> mods[holders[n]].ALGORITHM]

TwoSpecsShareAnId(mods) ==
    \E j, k \in 1..Len(SpecsOf(mods)) :
        j # k /\ SpecsOf(mods)[j].id = SpecsOf(mods)[k].id

\* every ALGORITHM the build reads is a spec
OnlySpecs(mods) ==
    \A k \in Read(mods) : mods[k].ALGORITHM.kind \in {"None", "AlgorithmSpec"}

CallEnded == pc = "idle" /\ result # NoResult

\* C19: when two specs of the package carry the same id no table is ever
\* produced and every call that builds the table ends in an error, which is
\* the duplicate-id error when every ALGORITHM is a spec; and a table that
\* was built holds every spec of the package under an id of its own.
C19_DuplicateIdFailsBuild ==
    /\ TwoSpecsShareAnId(modules) =>
           /\ ~cache.built
           /\ CallEnded =>
                  /\ result.status = "raised"
                  /\ specs = <<>>
                  /\ error \in {"ValueError: Duplicate algorithm id",
                                 "TypeError"}
                  /\ OnlySpecs(modules) =>
                         error = "ValueError: Duplicate algorithm id"
    /\ cache.built =>
           /\ cache.table = SpecsOf(modules)
           /\ \A id \in {cache.table[k].id : k \in 1..Len(cache.table)} :
                  Cardinality({k \in 1..Len(cache.table) :
                                  cache.table[k].id = id}) = 1

\* the third module repeats the id of an earlier one and the call that
\* builds the table ends in the duplicate-id error
C19_Witness ==
    /\ Len(modules) = 3
    /\ TwoSpecsShareAnId(modules)
    /\ Len(SpecsOf(modules)) = 3
    /\ SpecsOf(modules)[1].id # SpecsOf(modules)[2].id
    /\ CallEnded
    /\ result = [status |-> "raised", fn |-> "get_algorithm_fn"]
    /\ error = "ValueError: Duplicate algorithm id"

\* a table of two specs was built and is cached
C19_WitnessBuilt ==
    /\ cache.built
    /\ Len(cache.table) = 2
    /\ Len(modules) = 3
    /\ CallEnded

Ended(fn) == CallEnded /\ result.fn = fn

\* C20: list_algorithm_definitions returns exactly the registered specs with
\* hidden = false, so no hidden spec is in the list, and get_algorithm_fn of
\* the id of a registered spec, hidden or not, returns the spec's function.
C20_HiddenResolvableNotListed ==
    LET registered == SpecsOf(modules)
        hidden_ids == {registered[k].id : k \in {n \in 1..Len(registered) :
                                                    registered[n].hidden}}
    IN  /\ (Ended("list_algorithm_definitions") /\ result.status = "returned") =>
               /\ result.value =
                      LET shown == SelectSeq(registered,
                                             LAMBDA spec : spec.hidden = FALSE)
                      IN  [k \in 1..Len(shown) |-> shown[k].id]
               /\ \A k \in 1..Len(result.value) :
                      result.value[k] \notin hidden_ids
        /\ (Ended("get_algorithm_fn") /\ cache.built) =>
               \A k \in 1..Len(registered) :
                   registered[k].id = alg =>
                       /\ result.status = "returned"
                       /\ result.value = registered[k].fn

\* the market baseline of the repository is resolved
C20_Witness ==
    /\ modules = PackageModules
    /\ Ended("get_algorithm_fn")
    /\ alg = "market_benchmark"
    /\ TableGet(cache.table, alg).hidden
    /\ result.status = "returned"
    /\ result.value = "run_market_benchmark"

\* the list of the repository's package leaves the market baseline out
C20_WitnessListed ==
    /\ modules = PackageModules
    /\ Ended("list_algorithm_definitions")
    /\ result.status = "returned"
    /\ result.value = <<"donchian_breakout", "time_series_momentum">>

\* an id that no module of the repository's package registers
C20_WitnessUnsupported ==
    /\ modules = PackageModules
    /\ Ended("get_algorithm_fn")
    /\ alg = "sma_crossover"
    /\ result.status = "raised"
    /\ error = "ValueError: Unsupported algorithm"

(***************************************************************************)
(* Engine and service                                                      *)
(***************************************************************************)
RegisteredIds == {SpecsOf(modules)[k].id : k \in 1..Len(SpecsOf(modules))}

StrategyCalls ==
    SelectSeq(calls, LAMBDA c : c.fn \notin {"get_algorithm_fn", "save_simulation"})

CallsOf(fn) == SelectSeq(calls, LAMBDA c : c.fn = fn)

DirectCallEnded == pc \in {"done", "error"}

\* C21: a run whose algorithm id is not registered fails with the
\* unsupported-algorithm error with no strategy function called, so with no
\* bar fetched, no bundle and nothing stored; and the resolution succeeds,
\* a strategy function being called, exactly for the registered ids.
C21_UnknownAlgorithmFailsFirst ==
    /\ DirectCallEnded =>
           /\ alg \notin RegisteredIds =>
                  /\ pc = "error"
                  /\ error = "ValueError: Unsupported algorithm"
                  /\ result = NoResult
           /\ (alg \in RegisteredIds) <=> (StrategyCalls # <<>>)
           /\ (alg \in RegisteredIds) <=>
                  (error # "ValueError: Unsupported algorithm")
    /\ (pc = "responded" /\ alg \notin RegisteredIds) =>
           /\ response = Raises("HTTPException 400")
           /\ error = "ValueError: Unsupported algorithm"
           /\ StrategyCalls = <<>>
           /\ simulations = <<>>

\* an id nothing registers, with bars in the database for the range
C21_Witness ==
    /\ alg = "no_such_algorithm"
    /\ asset_known /\ LoadOhlcvFromDb(db, start_date, end_date) # <<>>
    /\ pc = "error"
    /\ calls = <<CallOf("get_algorithm_fn", <<alg>>)>>

\* sma_crossover: run_sma_crossover exists, its module defines no ALGORITHM
C21_WitnessSmaCrossover ==
    /\ alg = "sma_crossover"
    /\ asset_known /\ LoadOhlcvFromDb(db, start_date, end_date) # <<>>
    /\ pc = "responded"
    /\ response = Raises("HTTPException 400")
    /\ error = "ValueError: Unsupported algorithm"

\* positions in the call log of the benchmark's resolution and of the saves
BenchmarkAttempts ==
    {k \in 2..Len(calls) : calls[k] = CallOf("get_algorithm_fn", <<"market_benchmark">>)}

PrimaryStored == i > 0 /\ Len(simulations) >= i

\* C22: in run_and_store_simulation the primary result is stored before the
\* benchmark run is attempted, and whatever fails in the benchmark run or in
\* storing it, the request ends with the detail of the stored primary
\* simulation, which is unchanged, and with no exception.
C22_BenchmarkFailureIsolated ==
    /\ \A k \in BenchmarkAttempts :
           /\ PrimaryStored
           /\ \E j \in 1..(k - 1) : calls[j].fn = "save_simulation"
    /\ (pc \in {"detail", "responded"} /\ PrimaryStored) =>
           simulations[i] = SimulationRow(i, result)
    /\ (pc = "responded" /\ PrimaryStored) =>
           /\ response.status = "returned"
           /\ response.detail = SimulationRow(i, result)

\* the keys of the dictionary a strategy function returns
BundleFields ==
    {"status", "algorithm", "initial_capital", "final_equity", "total_return",
     "max_drawdown", "sharpe_ratio", "equity_curve", "trades",
     "number_of_trades", "winning_trades", "losing_trades", "accuracy"}

Complete(b) == b.status = "completed" /\ BundleFields \subseteq DOMAIN b

GetAlgorithmFnCalls == CallsOf("get_algorithm_fn")

\* C23: a run either raises and yields no bundle, or returns a complete
\* bundle of status "completed": this holds of run_backtest, of every
\* strategy function on the inputs of the state, and when the primary run
\* of a request fails nothing is stored, save_simulation is never called
\* and the benchmark is never resolved.
C23_NoPartialBundle ==
    /\ pc = "error" => result = NoResult
    /\ pc \in {"done", "save_main", "benchmark", "detail"} => Complete(result)
    /\ \A a \in Algorithms :
          LET o == Outcome(a, ParamsOrEmpty(params))
          IN  \/ o.pc = "error" /\ o.error # NoError /\ o.result = NoResult
              \/ o.pc = "done" /\ o.error = NoError /\ Complete(o.result)
    /\ \A k \in 1..Len(simulations) : simulations[k].status = "completed"
    /\ (pc = "responded" /\ error # NoError) =>
          /\ response.status = "raised"
          /\ simulations = <<>>
          /\ CallsOf("save_simulation") = <<>>
          /\ Len(GetAlgorithmFnCalls) = 1

\* a request for the market baseline on a known asset without rows in the
\* range: the loader raises before "if not candles" is reached
C23_Witness ==
    /\ pc = "responded"
    /\ alg = "market_benchmark" /\ asset_known /\ db = <<>>
    /\ error = "ValueError"
    /\ response = Raises("HTTPException 400")

\* the params the strategy function must receive: the caller's map, the
\* empty map when the caller gave None or nothing
ParamsExpected == IF params \in {None, <<>>} THEN <<>> ELSE params

\* C25: a direct call of run_backtest resolves the algorithm id exactly
\* once; when the id is registered it calls the resolved strategy function
\* exactly once, with the caller's start_date, end_date, initial_capital
\* and params (None becomes the empty map), and what it raises or returns
\* is what that function raises or returns.
C25_EngineDelegates ==
    DirectCallEnded =>
        /\ Len(GetAlgorithmFnCalls) = 1
        /\ calls[1] = CallOf("get_algorithm_fn", <<alg>>)
        /\ alg \in RegisteredIds =>
              /\ Len(StrategyCalls) = 1
              /\ StrategyCalls[1].fn = TableGet(SpecsOf(modules), alg).fn
              /\ StrategyCalls[1].args =
                    <<start_date, end_date, initial_capital, ParamsExpected>>
              /\ [pc |-> pc, error |-> error, result |-> result] =
                    Outcome(alg, ParamsExpected)

\* run_backtest called without params on a registered strategy
C25_Witness ==
    /\ pc = "done"
    /\ alg = "donchian_breakout" /\ params = None
    /\ Len(calls) = 2
    /\ calls[2].args[4] = <<>>
    /\ result.algorithm = "donchian_breakout"

\* run_backtest called with a parameter map, which the function receives
C25_WitnessParams ==
    /\ pc = "done"
    /\ alg = "donchian_breakout" /\ params = [lookback_period |-> 5]
    /\ calls[2].args[4] = params
    /\ Len(result.trades) > 0

(***************************************************************************)
(* Independence of runs                                                    *)
(***************************************************************************)
\* what run_backtest(algorithm, p) gives in a process that makes no other
\* call: a function of the call's arguments, the rows and the package
AloneOutcome(algorithm, p) ==
    LET spec == Resolve(LoadSpecsFrom(modules, 1, <<>>).table, algorithm)
    IN  IF spec = None THEN Raised("ValueError: Unsupported algorithm")
        ELSE Outcome(FnAlgorithm(spec.fn), ParamsOrEmpty(p))

\* C24: whatever calls ran before a call or interleave with it, the call
\* returns or raises what it would alone in a fresh process; and once the
\* table of _load_specs is cached no resolve or list call changes it.
C24_RunsIndependent ==
    /\ [](\A r \in DOMAIN runs :
              runs[r].pc = "returned" =>
                  runs[r].outcome =
                      AloneOutcome(runs[r].algorithm, runs[r].params))
    /\ [][cache.built => cache' = cache]_vars

\* two calls that were inside _load_specs() at the same time, both ended
\* with trades made
C24_Witness ==
    /\ Len(runs) >= 2
    /\ \A r \in 1..2 :
          /\ runs[r].pc = "returned"
          /\ runs[r].missed
          /\ runs[r].outcome.pc = "done"
          /\ Len(runs[r].outcome.result.trades) > 0
    /\ runs[1].algorithm # runs[2].algorithm

(***************************************************************************)
(* Strategies                                                              *)
(***************************************************************************)
\* cerebro.run() has returned and the run function has not yet
CerebroDone == pc = "running" /\ i > Len(candles)

\* the entries of a trade log or an equity curve dated d or earlier
UpTo(seq, d) == SelectSeq(seq, LAMBDA e : e.date <= d)

\* distances of high and low from the close tried on the last bar
LastBarSpreads == {0, 1, 2}

\* the first t fetched bars, the last of them with another high and low
Truncated(t, sp) ==
    [k \in 1..t |-> IF k = t THEN Bar(candles[k].date, candles[k].close, sp)
                    ELSE candles[k]]

\* C26: channel breakout has no lookahead: what the strategy has logged up
\* to bar t (trades and equity points) is what it logs when the feed ends at
\* bar t, whatever bar t's own high and low are; no later bar and no high or
\* low of bar t influences it.
C26_DonchianNoLookahead ==
    (alg = "donchian_breakout" /\ CerebroDone) =>
        \A t \in 1..Len(candles) : \A sp \in LastBarSpreads :
            LET r == CerebroRun(alg, InitialSim(initial_capital),
                                Truncated(t, sp), MinPeriod(alg, params),
                                params)
            IN  /\ r.trades = UpTo(trades, candles[t].date)
                /\ r.equity_curve = UpTo(equity_curve, candles[t].date)

\* a buy on a bar that is not the last, on a feed whose highs and lows
\* differ from the closes
C26_Witness ==
    /\ alg = "donchian_breakout" /\ CerebroDone
    /\ Len(trades) >= 1
    /\ trades[1].date < candles[Len(candles)].date
    /\ candles[1].high > candles[1].close

\* bar k of the feed is in the official window and the strategy has seen
\* fewer bars than its lookback
Unformed(k) ==
    /\ candles[k].date >= start_date
    /\ k < Lookback(alg, params)

PointsOn(d) == Cardinality({j \in 1..Len(equity_curve) : equity_curve[j].date = d})
TradesOn(d) == Cardinality({j \in 1..Len(trades) : trades[j].date = d})

\* C27: on a bar of the official window on which the indicator is not yet
\* formed, the strategy makes no trade and records exactly one equity point.
C27_UnformedBarRecorded ==
    (alg \in BacktraderAlgorithms /\ CerebroDone) =>
        \A k \in 1..Len(candles) :
            Unformed(k) =>
                /\ TradesOn(candles[k].date) = 0
                /\ PointsOn(candles[k].date) = 1

PositiveCloses == \A k \in 1..Len(candles) : candles[k].close > 0

\* C28: in the omniscient benchmark on positive closes the equity curve
\* never falls from one bar to the next and every sell has a profit above
\* 0, at every point of the run; so the returned max_drawdown is 0 and
\* losing_trades is 0.
C28_OmniscientNeverLoses ==
    (alg = "omniscient_benchmark" /\ PositiveCloses) =>
        /\ \A k \in 2..Len(equity_curve) :
              RLe(equity_curve[k - 1].equity, equity_curve[k].equity)
        /\ \A k \in 1..Len(trades) :
              trades[k].type = "sell" => RGt(trades[k].profit_loss, Zero)
        /\ Done =>
              /\ result.equity_curve = equity_curve
              /\ result.trades = trades
              /\ result.max_drawdown = Zero
              /\ result.losing_trades = 0

\* two round trips on closes that rise, fall and rise again
C28_Witness ==
    /\ alg = "omniscient_benchmark" /\ PositiveCloses
    /\ Done
    /\ Len(result.trades) >= 4
    /\ result.winning_trades >= 2
    /\ \E k \in 2..Len(candles) : candles[k].close < candles[k - 1].close

\* sum of profit_loss over the sell trades of a log
RECURSIVE RealisedProfit(_, _)
RealisedProfit(trs, n) ==
    IF n = 0 THEN Zero
    ELSE IF trs[n].type = "sell"
         THEN RAdd(RealisedProfit(trs, n - 1), trs[n].profit_loss)
         ELSE RealisedProfit(trs, n - 1)

\* C29: accounting identity of every finished run: final_equity is the
\* equity of the last point of the returned curve, and it is
\* initial_capital plus the profit_loss of all the sells of the trade log.
C29_AccountingIdentity ==
    Done =>
        /\ result.equity_curve # <<>>
        /\ result.final_equity =
              result.equity_curve[Len(result.equity_curve)].equity
        /\ result.final_equity =
              RAdd(R(initial_capital),
                   RealisedProfit(result.trades, Len(result.trades)))

\* the bars a loop strategy fetches for the run of the state
RangeBars == LoadOhlcvFromDb(db, start_date, end_date)

\* a bundle without the name of its algorithm
Unnamed(b) == [f \in DOMAIN b \ {"algorithm"} |-> b[f]]

SameButName(m, b) ==
    /\ m.pc = b.pc /\ m.error = b.error
    /\ m.pc = "done" =>
          /\ Unnamed(m.result) = Unnamed(b.result)
          /\ m.result.algorithm = "market_benchmark"
          /\ b.result.algorithm = "buy_and_hold"

LoopBenchmarkRun ==
    /\ alg \in {"market_benchmark", "buy_and_hold"}
    /\ \A k \in 1..Len(RangeBars) : RangeBars[k].close > 0

\* in exact arithmetic the two functions agree on positive closes
EqualAsRationals ==
    LoopBenchmarkRun =>
        /\ SameButName(RunLoopStrategy("market_benchmark"),
                       RunLoopStrategy("buy_and_hold"))
        /\ Done => result = RunLoopStrategy(alg).result

\* C30: on every range of positive closes and every initial capital
\* run_market_benchmark and run_buy_and_hold raise alike or return bundles
\* that differ in the algorithm name only (same trades, equity_curve,
\* final_equity, total_return, metrics and trade statistics), a single-bar
\* range included; and the finished run of either is that bundle.
C30_MarketIsBuyAndHold ==
    (LoopBenchmarkRun /\ Done) =>
        /\ SameButName(FloatMarketBenchmark(RangeBars, initial_capital),
                       FloatBuyAndHold(RangeBars, initial_capital))
        /\ result = FloatOutcome(alg).result
====
